---- MODULE Spec2Model ----
(***************************************************************************)
(* Bell Auto Sales: the admin mutation pipeline of server.js.              *)
(*                                                                         *)
(* Spec      the vehicle handlers (POST/PUT/DELETE /api/vehicles) running  *)
(*           concurrently, one step per await / database callback, against *)
(*           the vehicles table and the remote image store (Cloudinary).   *)
(* SpecLive  Spec with weak fairness on the steps that only wait for the   *)
(*           image store or the database to answer.                        *)
(* SpecGate  the mutating routes behind their middleware.                  *)
(* SpecAuth  login, logout and loginLimiter.                               *)
(* SpecAdmin the admin dashboard scripts: CSRF retry, inventory fetches    *)
(*           and the add/edit form.                                        *)
(* SpecCatalog the public catalog page: renderInventory and the dropdown.  *)
(* SpecFields the field checks of create and update, and what is written.  *)
(* SpecExternal Spec with images supplied by URL only.                     *)
(* SpecNormalize normalizeVehicle and normalizeImageArray of script.js.    *)
(* SpecPayload detectApiSchemaFromRow and buildPayloadForApi of the        *)
(*           dashboard scripts.                                            *)
(***************************************************************************)
EXTENDS Integers, Sequences, FiniteSets, TLC

\* ----- bounds of the model -----
NReq == 2          \* request slots that may be in flight at the same time
MaxVehicles == 1   \* rows ever inserted (AUTOINCREMENT ids 1..MaxVehicles)
MaxUploads == 2    \* images ever uploaded (fresh public ids 1..MaxUploads)
MaxFiles == 2      \* image files carried by one request

Reqs == 1..NReq

\* JavaScript null / a falsy publicId
Null == 0

VARIABLES
    rows,           \* vehicles table: id -> images_json (the stored list)
    lastID,         \* sqlite AUTOINCREMENT sequence of vehicles
    cloud,          \* public ids present in the remote image store
    nextPublicId,   \* next public id the image store hands out
    req,            \* per request slot: the handler's locals and position
    ackDeleted,     \* ids whose DELETE has been acknowledged with success
    isAdmin,        \* req.session.isAdmin of the admin browser's session
    csrfCookie,     \* the browser holds a csrf cookie issued by generateToken
    loginHits,      \* loginLimiter's count for the address in this window
    loginPending,   \* a login waits for session.regenerate: "no", "counted"
                    \* (its hit is in this window) or "stale" (window rolled)
    failedLogins,   \* logins answered 401 in this window of loginLimiter
    phase,          \* "anonymous", "loggedin", "loggedout", "expired": by the answers to login and logout
    leads,          \* ids of the rows of the leads table
    lastLeadId,     \* sqlite AUTOINCREMENT sequence of leads
    last,           \* the request that arrived last and how it was answered
    script,         \* which admin dashboard script the page runs
    AdminState,     \* AdminState of the dashboard script
    inventoryTbody, \* the rendered inventory table: the list it shows
    form,           \* fieldImage and fieldImageUrl of the add/edit form
    fetches,        \* GET /api/vehicles requests of the dashboard in flight
    issued,         \* inventory fetches the dashboard has issued so far
    resolved,       \* how each inventory fetch that came back was answered
    lastResolved,   \* the inventory fetch that came back last
    act,            \* the save or delete the dashboard is carrying out
    grid,           \* #inventory-grid of the catalog page
    vehicleSelect,  \* options the contact form's vehicle dropdown lists
    page,           \* the catalog page's renderInventory and dropdown calls
    vehicleRows,    \* vehicles table: id -> year, price, mileage, image url
    lastSave,       \* the create or update handled last, and its answer
    thisYear,       \* the calendar year of the server's clock
    apiRow,         \* images and images_json of a row GET /api/vehicles returned
    vehicle,        \* what normalizeVehicle made of apiRow
    twice,          \* the normalized images normalized again, directly and serialized
    shape,          \* apiKeys, casing, imagesStorage, imagesTouched of AdminState
    lastPayload     \* the payload buildPayloadForApi built last, and from what

pvars == <<rows, lastID, cloud, nextPublicId, req, ackDeleted>>
gvars == <<isAdmin, csrfCookie, loginHits, loginPending, failedLogins, phase,
           leads, lastLeadId, last>>
avars == <<script, AdminState, inventoryTbody, form, fetches, issued, resolved,
           lastResolved, act>>
cvars == <<grid, vehicleSelect, page>>
fvars == <<vehicleRows, lastSave, thisYear>>
nvars == <<apiRow, vehicle, twice>>
bvars == <<shape, lastPayload>>
xvars == <<avars, cvars, fvars, nvars, bvars>>
vars == <<rows, lastID, cloud, nextPublicId, req, ackDeleted,
          isAdmin, csrfCookie, loginHits, loginPending, failedLogins, phase,
          leads, lastLeadId, last, xvars>>

\* ----- values -----
\* URLs: what matters of a URL is whether extractPublicIdFromUrl finds a
\* public id in it.  NoUrl is the empty / missing URL (falsy).
CldUrl(p) == [host |-> "cloudinary", id |-> p]
ExtUrl(n) == [host |-> "other", id |-> n]
NoUrl == [host |-> "none", id |-> Null]

\* Items of a JSON array: an object {url, publicId}, a string, anything else.
ObjItem(u, p) == [t |-> "obj", url |-> u, publicId |-> p]
StrItem(u) == [t |-> "str", url |-> u, publicId |-> Null]
OtherItem == [t |-> "other", url |-> NoUrl, publicId |-> Null]

\* body.image_url, by what JSON.parse makes of it
Absent == [form |-> "absent", items |-> <<>>]
Plain(u) == [form |-> "plain", items |-> <<StrItem(u)>>]
JsonArray(items) == [form |-> "json_array", items |-> items]
JsonString(u) == [form |-> "json_string", items |-> <<StrItem(u)>>]
JsonOther == [form |-> "json_other", items |-> <<>>]

Range(s) == {s[i] : i \in 1..Len(s)}

RECURSIVE SelectSeqBy(_, _)
\* s.filter(x => keep contains x), order and repetitions kept
SelectSeqBy(s, keep) ==
    IF s = <<>> THEN <<>>
    ELSE IF Head(s) \in keep THEN <<Head(s)>> \o SelectSeqBy(Tail(s), keep)
    ELSE SelectSeqBy(Tail(s), keep)

RECURSIVE Count(_, _)
Count(s, x) ==
    IF s = <<>> THEN 0
    ELSE (IF Head(s) = x THEN 1 ELSE 0) + Count(Tail(s), x)

\* ----- helpers of server.js -----
extractPublicIdFromUrl(url) ==
    IF url = NoUrl \/ url.host # "cloudinary" THEN Null ELSE url.id

RECURSIVE ParsedImages(_)
\* the forEach of buildImagesArray over a parsed JSON array
ParsedImages(items) ==
    IF items = <<>> THEN <<>>
    ELSE LET item == Head(items)
             rest == ParsedImages(Tail(items))
         IN  IF item.t = "str" /\ item.url # NoUrl
                 THEN <<ObjItem(item.url, Null)>> \o rest
             ELSE IF item.t = "obj" /\ item.url # NoUrl
                 THEN <<ObjItem(item.url, item.publicId)>> \o rest
             ELSE rest

\* the images image_url contributes
ImagesFromUrl(image_url) ==
    CASE image_url.form = "absent" -> <<>>
      [] image_url.form = "json_array" -> ParsedImages(image_url.items)
      [] image_url.form = "json_string" ->
            IF image_url.items[1].url # NoUrl
            THEN <<ObjItem(image_url.items[1].url, Null)>> ELSE <<>>
      [] image_url.form = "json_other" -> <<>>
      [] image_url.form = "plain" ->
            IF image_url.items[1].url # NoUrl
            THEN <<ObjItem(image_url.items[1].url, Null)>> ELSE <<>>

\* faulty variant: the existing images are not kept when no new ones are given
buildImagesArray_NoKeep(cloudinaryResults, image_url, existingImages) ==
    cloudinaryResults \o ImagesFromUrl(image_url)

\* faulty variant: the images of image_url are put ahead of the uploads
buildImagesArray_UrlsFirst(cloudinaryResults, image_url, existingImages) ==
    LET fromUrl == ImagesFromUrl(image_url)
        images == fromUrl \o cloudinaryResults
    IN  IF images = <<>> /\ existingImages # <<>> THEN existingImages ELSE images

buildImagesArray(cloudinaryResults, image_url, existingImages) ==
    LET fromUrl == ImagesFromUrl(image_url)
        images == cloudinaryResults \o fromUrl
    IN  IF images = <<>> /\ existingImages # <<>> THEN existingImages ELSE images

RECURSIVE normalizeImagesFromDb(_)
normalizeImagesFromDb(imagesJson) ==
    IF imagesJson = <<>> THEN <<>>
    ELSE LET item == Head(imagesJson)
             rest == normalizeImagesFromDb(Tail(imagesJson))
         IN  IF item.t = "obj" /\ item.url # NoUrl
                 THEN <<ObjItem(item.url, item.publicId)>> \o rest
             ELSE IF item.t = "str"
                 THEN <<ObjItem(item.url, extractPublicIdFromUrl(item.url))>> \o rest
             ELSE rest

RECURSIVE getPublicIdsFromImages(_)
getPublicIdsFromImages(images) ==
    IF images = <<>> THEN <<>>
    ELSE LET img == Head(images)
             pid == IF img.publicId # Null THEN img.publicId
                    ELSE extractPublicIdFromUrl(img.url)
         IN  (IF pid # Null THEN <<pid>> ELSE <<>>)
                 \o getPublicIdsFromImages(Tail(images))

\* ----- request slots -----
IdleReq ==
    [kind |-> "none", pc |-> "idle", id |-> Null, files |-> 0,
     image_url |-> Absent, before |-> <<>>, existing |-> <<>>,
     results |-> <<>>, queue |-> <<>>, status |-> 0, err |-> "none",
     wrote |-> FALSE, written |-> <<>>, destroyed |-> <<>>, failed |-> {}]

\* public ids handed out so far
Issued == 1..(nextPublicId - 1)

\* The image_url values a request may carry: none, one external URL, and a
\* JSON array naming an already uploaded image twice as {url, publicId}.
ImageUrlInputs ==
    {Absent, Plain(ExtUrl(1))}
    \cup {JsonArray(<<ObjItem(CldUrl(p), p), ObjItem(CldUrl(p), p)>>) : p \in Issued \cap {1}}

\* uploads and inserts that requests in flight may still perform
RECURSIVE PendingUploadsIn(_)
PendingUploadsIn(S) ==
    IF S = {} THEN 0
    ELSE LET r == CHOOSE q \in S : TRUE
             left == IF req[r].pc = "upload"
                     THEN req[r].files - Len(req[r].results) ELSE 0
         IN  left + PendingUploadsIn(S \ {r})

PendingUploads == PendingUploadsIn(Reqs)

PendingInserts ==
    Cardinality({r \in Reqs : req[r].kind = "create" /\ req[r].pc \in {"upload", "write"}})

CanUpload(nfiles) == (nextPublicId - 1) + PendingUploads + nfiles <= MaxUploads

AfterValidation(nfiles) == IF nfiles > 0 THEN "upload" ELSE "write"

\* ----- uploadFilesToCloudinary: one step per awaited upload -----
\* faulty variant: the catch block rethrows without cleaning up
UploadCleanupIds_None(results) == <<>>

\* publicIdsToDelete of the catch block: the uploads that succeeded so far
UploadCleanupIds(results) == getPublicIdsFromImages(results)

UploadOk(r) ==
    /\ req[r].pc = "upload"
    /\ LET pid == nextPublicId
           results == Append(req[r].results, ObjItem(CldUrl(pid), pid))
       IN  /\ cloud' = cloud \cup {pid}
           /\ nextPublicId' = nextPublicId + 1
           /\ req' = [req EXCEPT ![r].results = results,
                                 ![r].pc = IF Len(results) = req[r].files
                                           THEN "write" ELSE "upload"]
    /\ UNCHANGED <<rows, lastID, ackDeleted>>

UploadFail(r) ==
    /\ req[r].pc = "upload"
    /\ LET ids == UploadCleanupIds(req[r].results)
       IN  req' = [req EXCEPT ![r].err = "upload",
                              ![r].queue = ids,
                              ![r].pc = IF ids # <<>> THEN "cleanup" ELSE "done",
                              ![r].status = IF ids # <<>> THEN 0 ELSE 500]
    /\ UNCHANGED <<rows, lastID, cloud, nextPublicId, ackDeleted>>

\* ----- deleteFromCloudinary: one step per awaited destroy -----
\* faulty variant: a failed destroy ends the loop
RestAfterDestroy_Abort(queue, ok) == IF ok THEN Tail(queue) ELSE <<>>

\* what is left to destroy after one attempt; a failed attempt is logged and
\* the loop goes on
RestAfterDestroy(queue, ok) == Tail(queue)

Destroy(r, ok) ==
    /\ req[r].pc \in {"cleanup", "bg"}
    /\ LET h == Head(req[r].queue)
           rest == RestAfterDestroy(req[r].queue, ok)
       IN  /\ cloud' = IF ok THEN cloud \ {h} ELSE cloud
           /\ req' = [req EXCEPT
                  ![r].destroyed = Append(@, h),
                  ![r].failed = IF ok THEN @ ELSE @ \cup {h},
                  ![r].queue = rest,
                  ![r].pc = IF rest = <<>> THEN "done" ELSE @,
                  \* the upload error is answered once the cleanup is over
                  ![r].status = IF rest = <<>> /\ req[r].pc = "cleanup"
                                THEN 500 ELSE @]
    /\ UNCHANGED <<rows, lastID, nextPublicId, ackDeleted>>

\* ----- POST /api/vehicles -----
PostVehicle(r, nfiles, image_url) ==
    /\ req[r].pc = "idle"
    /\ lastID + PendingInserts < MaxVehicles
    /\ CanUpload(nfiles)
    /\ req' = [req EXCEPT ![r] = [IdleReq EXCEPT !.kind = "create",
                                      !.files = nfiles,
                                      !.image_url = image_url,
                                      !.pc = AfterValidation(nfiles)]]
    /\ UNCHANGED <<rows, lastID, cloud, nextPublicId, ackDeleted>>

InsertRow(r, dberr) ==
    /\ req[r].kind = "create" /\ req[r].pc = "write"
    /\ LET images == buildImagesArray(req[r].results, req[r].image_url, <<>>)
       IN  IF dberr
           THEN /\ req' = [req EXCEPT ![r].pc = "done", ![r].status = 500,
                                      ![r].err = "write"]
                /\ UNCHANGED <<rows, lastID>>
           ELSE /\ lastID' = lastID + 1
                /\ rows' = [i \in DOMAIN rows \cup {lastID + 1} |->
                               IF i = lastID + 1 THEN images ELSE rows[i]]
                /\ req' = [req EXCEPT ![r].pc = "done", ![r].status = 201,
                                      ![r].id = lastID + 1, ![r].wrote = TRUE,
                                      ![r].written = images]
    /\ UNCHANGED <<cloud, nextPublicId, ackDeleted>>

\* ----- PUT /api/vehicles/:id -----
\* publicIdsToDelete: old ids that the new list no longer carries
PublicIdsToDelete(existingImages, images) ==
    LET oldPublicIds == getPublicIdsFromImages(existingImages)
        newPublicIds == Range(getPublicIdsFromImages(images))
    IN  SelectSeqBy(oldPublicIds, Range(oldPublicIds) \ newPublicIds)

\* faulty variant: the cleanup is started whatever the UPDATE did
UpdateCleanup_Always(dberr, changes, publicIdsToDelete) == publicIdsToDelete

\* the cleanup the UPDATE callback starts: none on error or when no row changed
UpdateCleanup(dberr, changes, publicIdsToDelete) ==
    IF dberr \/ changes = 0 THEN <<>> ELSE publicIdsToDelete

PutVehicle(r, id, nfiles, image_url, dberr) ==
    /\ req[r].pc = "idle"
    /\ CanUpload(nfiles)
    /\ LET base == [IdleReq EXCEPT !.kind = "update", !.id = id,
                                   !.files = nfiles, !.image_url = image_url]
       IN  req' = [req EXCEPT ![r] =
              IF dberr
                  THEN [base EXCEPT !.pc = "done", !.status = 500, !.err = "read"]
              ELSE IF id \notin DOMAIN rows
                  THEN [base EXCEPT !.pc = "done", !.status = 404,
                                    !.err = "notfound_read"]
              ELSE [base EXCEPT !.before = rows[id],
                                !.existing = normalizeImagesFromDb(rows[id]),
                                !.pc = AfterValidation(nfiles)]]
    /\ UNCHANGED <<rows, lastID, cloud, nextPublicId, ackDeleted>>

UpdateRow(r, dberr) ==
    /\ req[r].kind = "update" /\ req[r].pc = "write"
    /\ LET images == buildImagesArray(req[r].results, req[r].image_url,
                                      req[r].existing)
           changes == IF ~dberr /\ req[r].id \in DOMAIN rows THEN 1 ELSE 0
           queue == UpdateCleanup(dberr, changes,
                                  PublicIdsToDelete(req[r].existing, images))
       IN  /\ rows' = IF changes = 1 THEN [rows EXCEPT ![req[r].id] = images]
                      ELSE rows
           /\ req' = [req EXCEPT
                  ![r].status = IF dberr THEN 500
                                ELSE IF changes = 0 THEN 404 ELSE 200,
                  ![r].err = IF dberr THEN "write"
                             ELSE IF changes = 0 THEN "notfound_write" ELSE @,
                  ![r].wrote = (changes = 1),
                  ![r].written = IF changes = 1 THEN images ELSE @,
                  ![r].queue = queue,
                  ![r].pc = IF queue # <<>> THEN "bg" ELSE "done"]
    /\ UNCHANGED <<lastID, cloud, nextPublicId, ackDeleted>>

\* ----- DELETE /api/vehicles/:id -----
DeleteVehicle(r, id, dberr) ==
    /\ req[r].pc = "idle"
    /\ LET base == [IdleReq EXCEPT !.kind = "delete", !.id = id]
       IN  req' = [req EXCEPT ![r] =
              IF dberr
                  THEN [base EXCEPT !.pc = "done", !.status = 500, !.err = "read"]
              ELSE IF id \notin DOMAIN rows
                  THEN [base EXCEPT !.pc = "done", !.status = 404,
                                    !.err = "notfound_read"]
              ELSE [base EXCEPT !.before = rows[id], !.pc = "write"]]
    /\ UNCHANGED <<rows, lastID, cloud, nextPublicId, ackDeleted>>

\* the cleanup DELETE starts once the row is gone
DeleteCleanup(dberr, changes, imagesJson) ==
    IF dberr \/ changes = 0 THEN <<>>
    ELSE getPublicIdsFromImages(normalizeImagesFromDb(imagesJson))

DeleteRow(r, dberr) ==
    /\ req[r].kind = "delete" /\ req[r].pc = "write"
    /\ LET changes == IF ~dberr /\ req[r].id \in DOMAIN rows THEN 1 ELSE 0
           queue == DeleteCleanup(dberr, changes, req[r].before)
       IN  /\ rows' = IF changes = 1
                      THEN [i \in DOMAIN rows \ {req[r].id} |-> rows[i]]
                      ELSE rows
           /\ ackDeleted' = IF changes = 1 THEN ackDeleted \cup {req[r].id}
                            ELSE ackDeleted
           /\ req' = [req EXCEPT
                  ![r].status = IF dberr THEN 500
                                ELSE IF changes = 0 THEN 404 ELSE 200,
                  ![r].err = IF dberr THEN "write"
                             ELSE IF changes = 0 THEN "notfound_write" ELSE @,
                  ![r].wrote = (changes = 1),
                  ![r].queue = queue,
                  ![r].pc = IF queue # <<>> THEN "bg" ELSE "done"]
    /\ UNCHANGED <<lastID, cloud, nextPublicId>>

\* the slot is free again once the handler and its cleanup are over
Finish(r) ==
    /\ req[r].pc = "done"
    /\ req' = [req EXCEPT ![r] = IdleReq]
    /\ UNCHANGED <<rows, lastID, cloud, nextPublicId, ackDeleted>>

\* ----- the admin dashboard at page load -----
\* The repository holds two copies of the dashboard script:
\* "services" is src/src/api/services/cloudinary.js, "vehicle" is src/vehicle.js.
AdminScripts == {"services", "vehicle"}

MaxFetches == 3    \* inventory fetches one dashboard page issues

\* AdminState.cars and the table hold the list of the fetch they were taken
\* from; NoCars is the empty list []
NoCars == 0

\* the dashboard is idle: no save or delete under way
NoAct ==
    [kind |-> "none", pc |-> "idle", method |-> "none", images |-> FALSE,
     touched |-> FALSE, sends |-> 0, refreshes |-> 0, first |-> "none",
     retry |-> "none", shown |-> FALSE, succeeded |-> FALSE, fetch |-> 0]

NoFetch == [id |-> 0, answer |-> "none", stale |-> FALSE, cars |-> NoCars,
            table |-> NoCars]

\* checkExistingSession found a session: the dashboard is shown, the CSRF
\* token fetched and the first inventory fetch is on its way
InitAdmin ==
    /\ script \in AdminScripts
    /\ AdminState = [cars |-> NoCars, isLoggedIn |-> TRUE, editingCarId |-> Null,
                     csrfToken |-> TRUE, imagesTouched |-> FALSE,
                     vehiclesFetchSeq |-> IF script = "services" THEN 1 ELSE 0]
    /\ inventoryTbody = NoCars
    /\ form = [fieldImage |-> "none", fieldImageUrl |-> ""]
    /\ fetches = {[id |-> 1, seq |-> AdminState.vehiclesFetchSeq]}
    /\ issued = 1
    /\ resolved = <<>>
    /\ lastResolved = NoFetch
    /\ act = NoAct

\* the dashboard as the specifications of the server leave it: untouched
AdminIdle == InitAdmin /\ script = "services"

\* ----- the catalog page before its script runs -----
StaticGrid == [view |-> "static", cards |-> <<>>]
NoPage == [render |-> "none", before |-> StaticGrid, answer |-> "none",
           dropdown |-> "none"]

CatalogIdle ==
    /\ grid = StaticGrid
    /\ vehicleSelect = <<>>
    /\ page = NoPage

\* ----- the vehicles table as the field checks see it -----
StartYear == 2026    \* new Date().getFullYear() when the schema is built
NoSave == [op |-> "none", id |-> 0, body |-> <<>>, status |-> 0, changed |-> FALSE,
           year |-> StartYear]

FieldsIdle ==
    /\ vehicleRows = <<>>
    /\ lastSave = NoSave
    /\ thisYear = StartYear

\* ----- the catalog script's image lists before any row is normalized -----
JsUndefined == [t |-> "undefined"]
NoRow == [images |-> JsUndefined, images_json |-> JsUndefined]
NoVehicle == [pc |-> "fetched", images |-> <<>>, mainImage |-> JsUndefined]
NotRun == [t |-> "none"]
NotTwice == [direct |-> NotRun, serialized |-> NotRun]

NormalizeIdle ==
    /\ apiRow = NoRow
    /\ vehicle = NoVehicle
    /\ twice = NotTwice

\* ----- the dashboard's schema detection before any row was seen -----
NoKeys == [null |-> TRUE, keys |-> {}]    \* AdminState.apiKeys: null
InitShape(s) ==
    [script |-> s, apiKeys |-> NoKeys, imagesStorage |-> "images",
     casing |-> "snake", imagesTouched |-> FALSE]
NoPayload == [built |-> FALSE]

PayloadIdle ==
    /\ shape = InitShape("services")
    /\ lastPayload = NoPayload

InitX == AdminIdle /\ CatalogIdle /\ FieldsIdle /\ NormalizeIdle /\ PayloadIdle

\* ----- the specification -----
NoRequest ==
    [op |-> "none", admin |-> FALSE, phase |-> "anonymous", token |-> "none",
     password |-> "", failedBefore |-> 0, by |-> "none", status |-> 0,
     authenticated |-> FALSE, changed |-> FALSE]

InitStores ==
    /\ rows = <<>>
    /\ lastID = 0
    /\ cloud = {}
    /\ nextPublicId = 1
    /\ req = [r \in Reqs |-> IdleReq]
    /\ ackDeleted = {}
    /\ leads = {}
    /\ lastLeadId = 0

InitGate ==
    /\ isAdmin = FALSE
    /\ csrfCookie = FALSE
    /\ loginHits = 0
    /\ loginPending = "no"
    /\ failedLogins = 0
    /\ phase = "anonymous"
    /\ last = NoRequest

Init == InitStores /\ InitGate /\ InitX

\* the steps a handler takes after its first one
Handler(r) ==
    \/ UploadOk(r)
    \/ UploadFail(r)
    \/ \E ok \in BOOLEAN : Destroy(r, ok)
    \/ \E dberr \in BOOLEAN : InsertRow(r, dberr)
    \/ \E dberr \in BOOLEAN : UpdateRow(r, dberr)
    \/ \E dberr \in BOOLEAN : DeleteRow(r, dberr)
    \/ Finish(r)

\* Spec: the requests have passed the route's middleware
Next ==
    \E r \in Reqs :
        /\ \/ \E n \in 0..MaxFiles, u \in ImageUrlInputs : PostVehicle(r, n, u)
           \/ \E id \in 1..MaxVehicles, n \in 0..MaxFiles, u \in ImageUrlInputs,
                 dberr \in BOOLEAN : PutVehicle(r, id, n, u, dberr)
           \/ \E id \in 1..MaxVehicles, dberr \in BOOLEAN : DeleteVehicle(r, id, dberr)
           \/ Handler(r)
        /\ UNCHANGED <<gvars, xvars>>

Spec == Init /\ [][Next]_vars

\* ======================================================================
\* The routes behind their middleware: SpecGate
\* ======================================================================
\* One admin browser (one session cookie, one csrf cookie) and one client
\* address.  A request either carries the browser's session cookie or none.
\* Handlers run one at a time in slot GateReq.
GateReq == 1

\* program constants
ApiMax == 100
MutationMax == 30
LoginMax == 5
ContactMax == 5
EFFECTIVE_ADMIN_PASSWORD == "bell1234"

\* bounds
MaxLoginHits == 6   \* login attempts counted in one window of loginLimiter
MaxLeads == 1       \* rows ever inserted into leads

Passwords == {"", "wrong", EFFECTIVE_ADMIN_PASSWORD}
Tokens == {"none", "match", "other"}

\* apiLimiter, mutationLimiter and contactLimiter count every request of the
\* address, also those of routes outside this model; the count a request
\* meets is drawn from these: within the limit or just beyond it.
HitSamples(max) == {1, max + 1}

\* express-rate-limit: the request is refused once the count exceeds max
RateLimited(totalHits, max) == totalHits > max

\* faulty variant: failed requests are the ones not counted
HitsAfterResponse_SkipFailed(hits, status) ==
    IF status >= 400 THEN hits - 1 ELSE hits

\* skipSuccessfulRequests: a response below 400 takes its hit back
HitsAfterResponse(hits, status) ==
    IF status < 400 THEN hits - 1 ELSE hits

\* faulty variant: every session passes
requireAuth_Open(session) == TRUE

requireAuth(session) == session

\* faulty variant: a request without a token passes
doubleCsrfProtection_Lax(cookie, token) == token = "none" \/ (cookie /\ token = "match")

\* csrf-csrf: the token of the request must be the one of a csrf cookie the
\* server issued
doubleCsrfProtection(cookie, token) == cookie /\ token = "match"

\* multer with fileFilter and limits, then the error handlers: 0 lets pass
uploadFields(upload) ==
    CASE upload = "invalid_type" -> 415
      [] upload = "too_large" -> 413
      [] upload = "multer_error" -> 400
      [] OTHER -> 0

Uploads == {"ok", "invalid_type"}

\* the counts <<apiLimiter, mutationLimiter>> a mutating request meets
MutationTraffic == {<<1, 1>>, <<ApiMax + 1, 1>>, <<1, MutationMax + 1>>}

Answer(by, status) == [by |-> by, status |-> status]

\* app.use("/api", apiLimiter), then requireAuth, mutationLimiter,
\* uploadFields (vehicle POST and PUT only), doubleCsrfProtection with
\* csrfErrorHandler; status 0: the handler runs
MutationChain(apiHits, session, mutHits, upload, cookie, token) ==
    IF RateLimited(apiHits, ApiMax) THEN Answer("apiLimiter", 429)
    ELSE IF ~requireAuth(session) THEN Answer("requireAuth", 401)
    ELSE IF RateLimited(mutHits, MutationMax) THEN Answer("mutationLimiter", 429)
    ELSE IF uploadFields(upload) # 0 THEN Answer("uploadFields", uploadFields(upload))
    ELSE IF ~doubleCsrfProtection(cookie, token) THEN Answer("csrf", 403)
    ELSE Answer("handler", 0)

Arrived(op, sess, token, password, answer, authenticated, changed) ==
    [op |-> op, admin |-> sess /\ isAdmin, phase |-> IF sess THEN phase ELSE "none",
     token |-> IF csrfCookie \/ token = "none" THEN token ELSE "other",
     password |-> password, failedBefore |-> failedLogins,
     by |-> answer.by, status |-> answer.status,
     authenticated |-> authenticated, changed |-> changed]

StoresChanged == <<rows, cloud, leads, req>>' # <<rows, cloud, leads, req>>

\* ----- vehicle routes -----
ReqPostVehicle(sess, token, apiHits, mutHits, upload) ==
    LET a == MutationChain(apiHits, sess /\ isAdmin, mutHits, upload, csrfCookie, token)
    IN  /\ IF a.by = "handler"
           THEN PostVehicle(GateReq, IF upload = "ok" THEN 1 ELSE 0, Absent)
           ELSE UNCHANGED pvars
        /\ UNCHANGED <<leads, lastLeadId>>
        /\ last' = Arrived("post_vehicle", sess, token, "", a, FALSE, StoresChanged)
        /\ UNCHANGED <<isAdmin, csrfCookie, loginHits, loginPending, failedLogins, phase>>

ReqPutVehicle(sess, token, apiHits, mutHits, upload, id, dberr) ==
    LET a == MutationChain(apiHits, sess /\ isAdmin, mutHits, upload, csrfCookie, token)
    IN  /\ IF a.by = "handler"
           THEN PutVehicle(GateReq, id, IF upload = "ok" THEN 1 ELSE 0, Absent, dberr)
           ELSE UNCHANGED pvars
        /\ UNCHANGED <<leads, lastLeadId>>
        /\ last' = Arrived("put_vehicle", sess, token, "", a, FALSE, StoresChanged)
        /\ UNCHANGED <<isAdmin, csrfCookie, loginHits, loginPending, failedLogins, phase>>

ReqDeleteVehicle(sess, token, apiHits, mutHits, id, dberr) ==
    LET a == MutationChain(apiHits, sess /\ isAdmin, mutHits, "none", csrfCookie, token)
    IN  /\ IF a.by = "handler"
           THEN DeleteVehicle(GateReq, id, dberr)
           ELSE UNCHANGED pvars
        /\ UNCHANGED <<leads, lastLeadId>>
        /\ last' = Arrived("delete_vehicle", sess, token, "", a, FALSE, StoresChanged)
        /\ UNCHANGED <<isAdmin, csrfCookie, loginHits, loginPending, failedLogins, phase>>

\* ----- DELETE /api/leads/:id -----
ReqDeleteLead(sess, token, apiHits, mutHits, id, dberr) ==
    LET a == MutationChain(apiHits, sess /\ isAdmin, mutHits, "none", csrfCookie, token)
        changes == IF a.by = "handler" /\ ~dberr /\ id \in leads THEN 1 ELSE 0
        answer == IF a.by # "handler" THEN a
                  ELSE IF dberr THEN Answer("handler", 500)
                  ELSE IF changes = 0 THEN Answer("handler", 404)
                  ELSE Answer("handler", 200)
    IN  /\ leads' = IF changes = 1 THEN leads \ {id} ELSE leads
        /\ UNCHANGED <<pvars, lastLeadId>>
        /\ last' = Arrived("delete_lead", sess, token, "", answer, FALSE, StoresChanged)
        /\ UNCHANGED <<isAdmin, csrfCookie, loginHits, loginPending, failedLogins, phase>>

\* ----- POST /api/contact -----
\* contactOriginCheck, contactLimiter, validateContactForm, INSERT INTO leads
\* faulty variant: the other fields' errors are reported ahead of the honeypot's
validateContactForm_FieldsFirst(website, valid) ==
    IF ~valid THEN "invalid"
    ELSE IF website # "" THEN "spam"
    ELSE "ok"

\* validateContactForm: website is the honeypot as String(val) makes it, valid
\* says whether the other fields pass contactSchema
validateContactForm(website, valid) ==
    IF website # "" THEN "spam"
    ELSE IF ~valid THEN "invalid"
    ELSE "ok"

ReqPostContact(originOk, apiHits, contactHits, website, valid, dberr) ==
    LET validation == validateContactForm(website, valid)
        answer ==
            IF RateLimited(apiHits, ApiMax) THEN Answer("apiLimiter", 429)
            ELSE IF ~originOk THEN Answer("contactOriginCheck", 403)
            ELSE IF RateLimited(contactHits, ContactMax) THEN Answer("contactLimiter", 429)
            ELSE IF validation = "spam" THEN Answer("honeypot", 200)
            ELSE IF validation = "invalid" THEN Answer("validation", 400)
            ELSE IF dberr THEN Answer("handler", 500)
            ELSE Answer("handler", 200)
        inserted == answer = Answer("handler", 200)
    IN  /\ inserted => lastLeadId < MaxLeads
        /\ lastLeadId' = IF inserted THEN lastLeadId + 1 ELSE lastLeadId
        /\ leads' = IF inserted THEN leads \cup {lastLeadId + 1} ELSE leads
        /\ UNCHANGED pvars
        \* sendContactEmail is called in the insert's callback, once the row is in
        /\ last' = Arrived("post_contact", FALSE, "none", "", answer, FALSE, StoresChanged)
                      @@ [website |-> website, valid |-> valid, emailed |-> inserted]
        /\ UNCHANGED <<isAdmin, csrfCookie, loginHits, loginPending, failedLogins, phase>>

\* one submission for each way POST /api/contact can end:
\* <<originOk, apiHits, contactHits, website, valid, dberr>>
ContactInputs ==
    { <<TRUE, ApiMax + 1, 1, "", TRUE, FALSE>>,
      <<FALSE, 1, 1, "", TRUE, FALSE>>,
      <<TRUE, 1, ContactMax + 1, "", TRUE, FALSE>>,
      <<TRUE, 1, 1, "bot", TRUE, FALSE>>,
      <<TRUE, 1, 1, "bot", FALSE, FALSE>>,
      <<TRUE, 1, 1, "bot", TRUE, TRUE>>,
      <<TRUE, ApiMax + 1, 1, "bot", TRUE, FALSE>>,
      <<FALSE, 1, 1, "bot", TRUE, FALSE>>,
      <<TRUE, 1, ContactMax + 1, "bot", TRUE, FALSE>>,
      <<TRUE, 1, 1, "", FALSE, FALSE>>,
      <<TRUE, 1, 1, "", TRUE, TRUE>>,
      <<TRUE, 1, 1, "", TRUE, FALSE>> }

\* ----- admin session routes -----
ReqGetCsrfToken(apiHits) ==
    LET answer == IF RateLimited(apiHits, ApiMax) THEN Answer("apiLimiter", 429)
                  ELSE Answer("handler", 200)
    IN  /\ csrfCookie' = (csrfCookie \/ answer.status = 200)
        /\ last' = Arrived("get_csrf_token", TRUE, "none", "", answer, FALSE, FALSE)
        /\ UNCHANGED <<pvars, isAdmin, loginHits, loginPending, failedLogins, phase,
                       leads, lastLeadId>>

ReqGetSession(sess, apiHits) ==
    LET answer == IF RateLimited(apiHits, ApiMax) THEN Answer("apiLimiter", 429)
                  ELSE Answer("handler", 200)
    IN  /\ last' = Arrived("get_session", sess, "none", "", answer,
                           answer.status = 200 /\ sess /\ isAdmin, FALSE)
        /\ UNCHANGED <<pvars, isAdmin, csrfCookie, loginHits, loginPending,
                       failedLogins, phase, leads, lastLeadId>>

\* constant-time comparison: equal length and equal bytes
PasswordValid(password) == password = EFFECTIVE_ADMIN_PASSWORD

\* POST /api/admin/login up to session.regenerate
ReqPostLogin(password, apiHits) ==
    LET totalHits == loginHits + 1
        answer ==
            IF RateLimited(apiHits, ApiMax) THEN Answer("apiLimiter", 429)
            ELSE IF RateLimited(totalHits, LoginMax) THEN Answer("loginLimiter", 429)
            ELSE IF password = "" THEN Answer("handler", 401)
            ELSE IF ~PasswordValid(password) THEN Answer("handler", 401)
            ELSE Answer("handler", 0)
    IN  /\ loginHits < MaxLoginHits
        /\ answer.status = 0 => loginPending = "no"
        /\ loginHits' = IF answer.by = "apiLimiter" THEN loginHits
                        ELSE IF answer.status = 0 THEN totalHits
                        ELSE HitsAfterResponse(totalHits, answer.status)
        /\ loginPending' = IF answer.status = 0 THEN "counted" ELSE loginPending
        /\ failedLogins' = IF answer.status = 401 THEN failedLogins + 1 ELSE failedLogins
        /\ last' = Arrived("login", TRUE, "none", password, answer, FALSE, FALSE)
        /\ UNCHANGED <<pvars, isAdmin, csrfCookie, phase, leads, lastLeadId>>

\* the callback of session.regenerate
LoginRegenerated(storeErr) ==
    /\ loginPending # "no"
    /\ loginPending' = "no"
    /\ LET status == IF storeErr THEN 500 ELSE 200
       IN  loginHits' = IF loginPending = "counted"
                        THEN HitsAfterResponse(loginHits, status) ELSE loginHits
    /\ isAdmin' = IF storeErr THEN isAdmin ELSE TRUE
    /\ csrfCookie' = IF storeErr THEN csrfCookie ELSE TRUE
    /\ phase' = IF storeErr THEN phase ELSE "loggedin"
    /\ UNCHANGED <<pvars, failedLogins, leads, lastLeadId, last>>

\* faulty variant: logout answers without destroying the session
SessionAfterLogout_Kept(session, storeErr) == session

\* req.session.destroy
SessionAfterLogout(session, storeErr) == IF storeErr THEN session ELSE FALSE

ReqPostLogout(apiHits, storeErr) ==
    LET answer == IF RateLimited(apiHits, ApiMax) THEN Answer("apiLimiter", 429)
                  ELSE IF storeErr THEN Answer("handler", 500)
                  ELSE Answer("handler", 200)
    IN  /\ isAdmin' = IF answer.by = "handler"
                      THEN SessionAfterLogout(isAdmin, storeErr) ELSE isAdmin
        /\ phase' = IF answer.status = 200 THEN "loggedout" ELSE phase
        /\ last' = Arrived("logout", TRUE, "none", "", answer, FALSE, FALSE)
        /\ UNCHANGED <<pvars, csrfCookie, loginHits, loginPending, failedLogins,
                       leads, lastLeadId>>

\* the session's maxAge elapses without activity
SessionExpire ==
    /\ isAdmin
    /\ isAdmin' = FALSE
    /\ phase' = "expired"
    /\ UNCHANGED <<pvars, csrfCookie, loginHits, loginPending, failedLogins,
                   leads, lastLeadId, last>>

\* windowMs of loginLimiter elapses
LoginWindowRoll ==
    /\ loginHits > 0
    /\ loginHits' = 0
    /\ failedLogins' = 0
    /\ loginPending' = IF loginPending = "counted" THEN "stale" ELSE loginPending
    /\ UNCHANGED <<pvars, isAdmin, csrfCookie, phase, leads, lastLeadId, last>>

\* SpecGate: the mutating routes behind their middleware, against a session
\* that is authenticated or not when the run starts.  Logging in is SpecAuth's.
InitSession ==
    /\ isAdmin \in BOOLEAN
    /\ phase = IF isAdmin THEN "loggedin" ELSE "anonymous"
    /\ csrfCookie = FALSE
    /\ loginHits = 0
    /\ loginPending = "no"
    /\ failedLogins = 0
    /\ last = NoRequest

NextGate ==
    /\ \/ \E sess \in BOOLEAN, token \in Tokens, hits \in MutationTraffic :
               \/ \E upload \in Uploads :
                     ReqPostVehicle(sess, token, hits[1], hits[2], upload)
               \/ \E upload \in Uploads, id \in 1..MaxVehicles :
                     ReqPutVehicle(sess, token, hits[1], hits[2], upload, id, FALSE)
               \/ \E id \in 1..MaxVehicles :
                     ReqDeleteVehicle(sess, token, hits[1], hits[2], id, FALSE)
               \/ \E id \in 1..MaxLeads :
                     ReqDeleteLead(sess, token, hits[1], hits[2], id, FALSE)
       \/ \E c \in ContactInputs : ReqPostContact(c[1], c[2], c[3], c[4], c[5], c[6])
       \/ \E apiHits \in HitSamples(ApiMax) : ReqGetCsrfToken(apiHits)
       \/ \E apiHits \in HitSamples(ApiMax), storeErr \in BOOLEAN :
               ReqPostLogout(apiHits, storeErr)
       \/ SessionExpire
       \/ Handler(GateReq) /\ UNCHANGED gvars
    /\ UNCHANGED xvars

InitOnSession == InitStores /\ InitSession /\ InitX

SpecGate == InitOnSession /\ [][NextGate]_vars

\* SpecAuth: logging in and out, loginLimiter's window, and the requests that
\* show what the session is allowed.
NextAuth ==
    /\ \/ \E password \in Passwords, apiHits \in HitSamples(ApiMax) :
               ReqPostLogin(password, apiHits)
       \/ \E storeErr \in BOOLEAN : LoginRegenerated(storeErr)
       \/ \E apiHits \in HitSamples(ApiMax), storeErr \in BOOLEAN :
               ReqPostLogout(apiHits, storeErr)
       \/ SessionExpire
       \/ LoginWindowRoll
       \/ \E sess \in BOOLEAN, apiHits \in HitSamples(ApiMax) : ReqGetSession(sess, apiHits)
       \/ \E apiHits \in HitSamples(ApiMax) : ReqGetCsrfToken(apiHits)
       \/ \E sess \in BOOLEAN, token \in Tokens, hits \in MutationTraffic,
             id \in 1..MaxLeads, dberr \in BOOLEAN :
               ReqDeleteLead(sess, token, hits[1], hits[2], id, dberr)
       \/ \E c \in ContactInputs : ReqPostContact(c[1], c[2], c[3], c[4], c[5], c[6])
    /\ UNCHANGED xvars

SpecAuth == Init /\ [][NextAuth]_vars

GateTypeOK ==
    /\ loginHits \in 0..MaxLoginHits
    /\ failedLogins \in 0..MaxLoginHits
    /\ leads \subseteq 1..lastLeadId

TypeOK ==
    /\ lastID \in 0..MaxVehicles
    /\ DOMAIN rows \subseteq 1..lastID
    /\ nextPublicId \in 1..(MaxUploads + 1)
    /\ cloud \subseteq Issued


\* the steps that only wait for the image store to answer a destroy
SpecLive ==
    Spec /\ \A r \in Reqs : WF_vars((\E ok \in BOOLEAN : Destroy(r, ok)) /\ UNCHANGED <<gvars, xvars>>)

\* ----- what a request did, read off its slot -----
UploadedBy(r) == Range(getPublicIdsFromImages(req[r].results))
OldPublicIds(r) == Range(getPublicIdsFromImages(normalizeImagesFromDb(req[r].before)))
NewPublicIds(r) == Range(getPublicIdsFromImages(req[r].written))
SuppliesNoImages(r) == req[r].files = 0 /\ req[r].image_url = Absent
UploadErrorAnswered(r) == req[r].err = "upload" /\ req[r].status = 500

\* C1 (as stated): when upload N of a Create fails, every image of uploads
\* 1..N-1 is gone from the remote store when the error response is sent, and
\* the request has inserted no row.
C1_AsStated ==
    \A r \in Reqs :
        (req[r].kind = "create" /\ UploadErrorAnswered(r)) =>
            /\ UploadedBy(r) \cap cloud = {}
            /\ ~req[r].wrote

\* C1 (amended): when upload N of a Create fails, every image of uploads
\* 1..N-1 has been passed to the remote Delete exactly once when the error
\* response is sent, it is gone from the remote store unless that Delete
\* attempt itself failed, and the request has inserted no row.
C1_CleanupAttempted ==
    \A r \in Reqs :
        (req[r].kind = "create" /\ UploadErrorAnswered(r)) =>
            /\ \A h \in UploadedBy(r) :
                  /\ Count(req[r].destroyed, h) = 1
                  /\ (h \in cloud => h \in req[r].failed)
            /\ ~req[r].wrote

C1_Witness ==
    \E r \in Reqs :
        /\ req[r].kind = "create" /\ UploadErrorAnswered(r)
        /\ req[r].files = 2 /\ Len(req[r].results) = 1
        /\ UploadedBy(r) \cap cloud = {}

C3_DeletedExactlyOnce ==
    \A r \in Reqs :
        (req[r].kind = "update" /\ req[r].wrote /\ req[r].pc = "done"
            /\ ~SuppliesNoImages(r)) =>
            /\ \A h \in OldPublicIds(r) \ NewPublicIds(r) :
                  Count(req[r].destroyed, h) = 1
            /\ \A h \in NewPublicIds(r) : Count(req[r].destroyed, h) = 0

\* C4: an Update or Delete passes none of the public ids its row referenced
\* to the remote Delete unless its own row write has taken effect: not before
\* the write, and never when the write fails or changes no row.
C4_NoDeleteBeforeWrite ==
    \A r \in Reqs :
        (req[r].kind \in {"update", "delete"} /\ ~req[r].wrote) =>
            \A h \in OldPublicIds(r) : Count(req[r].destroyed, h) = 0

C4_Witness ==
    \E r \in Reqs :
        /\ req[r].kind = "update" /\ req[r].pc = "done"
        /\ req[r].err = "notfound_write"
        /\ OldPublicIds(r) # {}
        /\ ~SuppliesNoImages(r)

C6_NoOrphanOnMissingRow ==
    \A r \in Reqs :
        (req[r].kind = "update" /\ req[r].status = 404) =>
            UploadedBy(r) \cap cloud = {}

\* ----- what the request that arrived last met -----
MutationOps == {"post_vehicle", "put_vehicle", "delete_vehicle", "delete_lead"}
LastIsMutation == last.op \in MutationOps
RefusedAhead(gates) == last.by \in gates

AuthenticatedOnlyAfterLogin ==
    /\ [](isAdmin => phase = "loggedin")
    /\ [][\A password \in Passwords \ {EFFECTIVE_ADMIN_PASSWORD},
            apiHits \in HitSamples(ApiMax) :
              ReqPostLogin(password, apiHits) =>
                  /\ loginPending' = loginPending
                  /\ isAdmin' = isAdmin]_vars

OnLoggedOutSession == last.phase = "loggedout"

Answers == {"ok", "401", "403csrf", "error", "network"}

\* GET /api/vehicles has no CSRF check
FetchAnswers == Answers \ {"403csrf"}

\* fetchCsrfToken: a token the server hands out replaces the held one; on a
\* failure the held one stays
fetchCsrfToken(csrfToken, fetched) == IF fetched THEN TRUE ELSE csrfToken

\* ----- fetchCarsAndRender -----
\* the seq a fetch takes: the services script counts them, the other does not
NextFetchSeq(state) ==
    IF script = "services" THEN state.vehiclesFetchSeq + 1 ELSE state.vehiclesFetchSeq

\* seq === AdminState.vehiclesFetchSeq; the vehicle script has no such test
IsLatestFetch(seq, state) ==
    IF script = "services" THEN seq = state.vehiclesFetchSeq ELSE TRUE

\* the catch block: the services script leaves AdminState.cars alone, the
\* vehicle script sets AdminState.cars = [] and renders
CarsAfterFailure(cars) == IF script = "services" THEN cars ELSE NoCars

\* resetForm
FormReset == [fieldImage |-> "none", fieldImageUrl |-> ""]
StateReset(state) == [state EXCEPT !.editingCarId = Null, !.imagesTouched = FALSE]

\* the first lines of fetchCarsAndRender, up to the await
StartFetch(state) ==
    /\ issued < MaxFetches
    /\ issued' = issued + 1
    /\ fetches' = fetches \cup {[id |-> issued + 1, seq |-> NextFetchSeq(state)]}
    /\ AdminState' = [state EXCEPT !.vehiclesFetchSeq = NextFetchSeq(state)]

\* what the save or delete that awaits fetch f does once it is back
ActAfterFetch(f) ==
    IF act.pc = "refreshing" /\ act.fetch = f.id
    THEN [act EXCEPT !.pc = "done", !.succeeded = TRUE]
    ELSE act

ResetsAfterFetch(f) ==
    /\ act.pc = "refreshing" /\ act.fetch = f.id
    /\ act.kind = "save" \/ AdminState.editingCarId # Null

\* the rest of fetchCarsAndRender, when the response of fetch f is there
FetchResolve(f, answer) ==
    /\ f \in fetches
    /\ fetches' = fetches \ {f}
    /\ LET latest == IsLatestFetch(f.seq, AdminState)
           expired == answer = "401" /\ latest
           cars == IF ~latest THEN AdminState.cars
                   ELSE IF answer = "ok" THEN f.id
                   ELSE CarsAfterFailure(AdminState.cars)
           table == IF ~latest THEN inventoryTbody
                    ELSE IF answer = "ok" THEN f.id
                    ELSE CarsAfterFailure(inventoryTbody)
           state == [AdminState EXCEPT
                        !.cars = cars,
                        !.isLoggedIn = IF expired THEN FALSE ELSE @,
                        !.csrfToken = IF expired /\ script = "vehicle" THEN FALSE ELSE @]
       IN  /\ AdminState' = IF ResetsAfterFetch(f) THEN StateReset(state) ELSE state
           /\ inventoryTbody' = table
           /\ form' = IF ResetsAfterFetch(f) THEN FormReset ELSE form
           /\ lastResolved' = [id |-> f.id, answer |-> answer, stale |-> f.id # issued,
                               cars |-> AdminState.cars, table |-> inventoryTbody]
    /\ resolved' = [i \in DOMAIN resolved \cup {f.id} |->
                       IF i = f.id THEN answer ELSE resolved[i]]
    /\ act' = ActAfterFetch(f)
    /\ UNCHANGED <<script, issued>>

\* handleLoginFormSubmit with the right password, from the login screen
Login ==
    /\ ~AdminState.isLoggedIn
    /\ act.pc = "idle"
    /\ StartFetch([AdminState EXCEPT !.isLoggedIn = TRUE, !.csrfToken = TRUE])
    /\ UNCHANGED <<script, inventoryTbody, form, resolved, lastResolved, act>>

\* ----- the add/edit form -----
\* the input listener of fieldImageUrl (setupLivePreview)
TypeImageUrl(url) ==
    /\ AdminState.isLoggedIn
    /\ form' = [form EXCEPT !.fieldImageUrl = url]
    /\ AdminState' = IF script = "services" /\ url = "valid"
                     THEN [AdminState EXCEPT !.imagesTouched = TRUE] ELSE AdminState
    /\ UNCHANGED <<script, inventoryTbody, fetches, issued, resolved, lastResolved, act>>

\* the change listener of fieldImage (setupLivePreview)
ChooseFiles(files) ==
    /\ AdminState.isLoggedIn
    /\ form' = [form EXCEPT !.fieldImage = files]
    /\ AdminState' = IF script = "services" /\ files = "valid"
                     THEN [AdminState EXCEPT !.imagesTouched = TRUE] ELSE AdminState
    /\ UNCHANGED <<script, inventoryTbody, fetches, issued, resolved, lastResolved, act>>

\* enterEditMode: AdminState.imagesTouched = false (services script)
TouchedOnEdit(touched) == IF script = "services" THEN FALSE ELSE touched

\* the Edit button of a table row: enterEditMode
ClickEdit ==
    /\ AdminState.isLoggedIn
    /\ inventoryTbody # NoCars /\ AdminState.cars # NoCars
    /\ AdminState' = [AdminState EXCEPT
                         !.editingCarId = 1,
                         !.imagesTouched = TouchedOnEdit(AdminState.imagesTouched)]
    /\ UNCHANGED <<script, inventoryTbody, form, fetches, issued, resolved,
                   lastResolved, act>>

\* ----- handleAddCarFormSubmit -----
\* the form data carries image files or an image URL
FormCarriesImages(f) == f.fieldImage = "valid" \/ f.fieldImageUrl = "valid"

\* up to the first fetch; a file of another type or an unsupported URL ends
\* the handler before anything is sent
SubmitForm(fetched) ==
    /\ AdminState.isLoggedIn
    /\ act.pc = "idle"
    /\ form.fieldImage # "invalid" /\ form.fieldImageUrl # "invalid"
    /\ AdminState' = [AdminState EXCEPT
                         !.csrfToken = IF @ THEN @ ELSE fetchCsrfToken(@, fetched)]
    /\ act' = [NoAct EXCEPT
                  !.kind = "save", !.pc = "wait1",
                  !.method = IF AdminState.editingCarId # Null THEN "PUT" ELSE "POST",
                  !.images = FormCarriesImages(form),
                  !.touched = AdminState.imagesTouched,
                  !.sends = 1]
    /\ UNCHANGED <<script, inventoryTbody, form, fetches, issued, resolved, lastResolved>>

\* the action goes on to await fetchCarsAndRender()
Refresh(a, state) ==
    /\ StartFetch(state)
    /\ act' = [a EXCEPT !.pc = "refreshing", !.fetch = issued + 1]

\* the catch block: alert
Fail(a, state) ==
    /\ act' = [a EXCEPT !.pc = "done", !.shown = TRUE]
    /\ AdminState' = state
    /\ UNCHANGED <<fetches, issued>>

\* the 403 branch: fetchCsrfToken, then the same request once more
Resend(a, fetched) ==
    /\ act' = [a EXCEPT !.pc = "wait2", !.refreshes = @ + 1, !.sends = @ + 1]
    /\ AdminState' = [AdminState EXCEPT !.csrfToken = fetchCsrfToken(@, fetched)]
    /\ UNCHANGED <<fetches, issued>>

\* the answer to the first request of a save
SaveAnswered(answer, fetched) ==
    /\ act.kind = "save" /\ act.pc = "wait1"
    /\ LET a == [act EXCEPT !.first = answer]
       IN  CASE answer = "ok" -> Refresh(a, AdminState)
             [] answer = "401" ->
                    Fail(a, [AdminState EXCEPT !.isLoggedIn = FALSE])
             [] answer = "403csrf" -> Resend(a, fetched)
             [] OTHER -> Fail(a, AdminState)
    /\ UNCHANGED <<script, inventoryTbody, form, resolved, lastResolved>>

\* the answer to the retry of a save: if (!retryRes.ok) throw
SaveRetryAnswered(answer) ==
    /\ act.kind = "save" /\ act.pc = "wait2"
    /\ LET a == [act EXCEPT !.retry = answer]
       IN  IF answer = "ok" THEN Refresh(a, AdminState) ELSE Fail(a, AdminState)
    /\ UNCHANGED <<script, inventoryTbody, form, resolved, lastResolved>>

\* ----- deleteCar -----
\* the Delete button of a table row, confirmed; requestJson of the services
\* script sends no CSRF token, authRequest of the vehicle script fetches one
\* when none is held
ClickDelete(fetched) ==
    /\ AdminState.isLoggedIn
    /\ act.pc = "idle"
    /\ inventoryTbody # NoCars
    /\ AdminState' = [AdminState EXCEPT
                         !.csrfToken = IF @ \/ script = "services" THEN @
                                       ELSE fetchCsrfToken(@, fetched)]
    /\ act' = [NoAct EXCEPT !.kind = "delete", !.pc = "wait1",
                            !.method = "DELETE", !.sends = 1]
    /\ UNCHANGED <<script, inventoryTbody, form, fetches, issued, resolved, lastResolved>>

\* requestJson of the services script throws on every answer that is not ok;
\* authRequest of the vehicle script retries when the 403 names CSRF
RetriesOnCsrf(answer) == script = "vehicle" /\ answer = "403csrf"

\* the answer to the first request of a delete
DeleteAnswered(answer, fetched) ==
    /\ act.kind = "delete" /\ act.pc = "wait1"
    /\ LET a == [act EXCEPT !.first = answer]
       IN  CASE answer = "ok" -> Refresh(a, AdminState)
             [] RetriesOnCsrf(answer) -> Resend(a, fetched)
             [] answer = "401" /\ script = "vehicle" ->
                    Fail(a, [AdminState EXCEPT !.isLoggedIn = FALSE,
                                               !.csrfToken = FALSE])
             [] OTHER -> Fail(a, AdminState)
    /\ UNCHANGED <<script, inventoryTbody, form, resolved, lastResolved>>

\* authRequest returns retryRes whatever its status; only a fetch that
\* rejects throws
RetryReturned(answer) == answer # "network"

\* the answer to the retry of a delete (vehicle script)
DeleteRetryAnswered(answer) ==
    /\ act.kind = "delete" /\ act.pc = "wait2"
    /\ LET a == [act EXCEPT !.retry = answer]
       IN  IF RetryReturned(answer) THEN Refresh(a, AdminState)
           ELSE Fail(a, AdminState)
    /\ UNCHANGED <<script, inventoryTbody, form, resolved, lastResolved>>

\* the handler has returned; the dashboard takes the next save or delete
ActOver ==
    /\ act.pc = "done"
    /\ act' = NoAct
    /\ UNCHANGED <<script, AdminState, inventoryTbody, form, fetches, issued,
                   resolved, lastResolved>>

NextAdmin ==
    /\ \/ \E f \in fetches, answer \in FetchAnswers : FetchResolve(f, answer)
       \/ Login
       \/ \E url \in {"", "valid", "invalid"} : TypeImageUrl(url)
       \/ \E files \in {"none", "valid", "invalid"} : ChooseFiles(files)
       \/ ClickEdit
       \/ \E fetched \in BOOLEAN : SubmitForm(fetched)
       \/ \E answer \in Answers, fetched \in BOOLEAN : SaveAnswered(answer, fetched)
       \/ \E answer \in Answers : SaveRetryAnswered(answer)
       \/ \E fetched \in BOOLEAN : ClickDelete(fetched)
       \/ \E answer \in Answers, fetched \in BOOLEAN : DeleteAnswered(answer, fetched)
       \/ \E answer \in Answers : DeleteRetryAnswered(answer)
       \/ ActOver
    /\ UNCHANGED <<pvars, gvars, cvars, fvars, nvars, bvars>>

InitDashboard ==
    InitStores /\ InitGate /\ InitAdmin /\ CatalogIdle /\ FieldsIdle
        /\ NormalizeIdle /\ PayloadIdle

SpecAdmin == InitDashboard /\ [][NextAdmin]_vars

\* ----- claims about the dashboard -----
\* a save or delete whose first request has been answered
FirstAnswered == act.pc \in {"wait2", "refreshing", "done"}

\* C11: a save or delete whose first request was refused with 403 for CSRF
\* fetched a fresh token once and was sent again exactly once: two requests in
\* all, never one, never three.
C11_ResentExactlyOnce ==
    /\ act.sends <= 2
    /\ (FirstAnswered /\ act.first = "403csrf")
           => (act.sends = 2 /\ act.refreshes = 1)

\* C12: when the retry of a save or delete is refused as well, the action ends
\* with the failure shown to the administrator, after two requests and no
\* more, and is never carried on as a success.
C12_SecondRefusalReported ==
    act.retry \notin {"none", "ok"}
        => (act.pc = "done" /\ act.shown /\ ~act.succeeded /\ act.sends = 2)

\* C13: the response of an inventory fetch that is not the latest one issued
\* changes neither AdminState.cars nor the table, and once every fetch is
\* back and the latest one was answered with the list, AdminState.cars and the
\* table show that latest response.
C13_LatestFetchWins ==
    /\ lastResolved.stale
           => (AdminState.cars = lastResolved.cars
               /\ inventoryTbody = lastResolved.table)
    /\ (fetches = {} /\ issued \in DOMAIN resolved /\ resolved[issued] = "ok")
           => (AdminState.cars = issued /\ inventoryTbody = issued)

\* C14: an inventory fetch that failed leaves AdminState.cars and the table as
\* they were before its response.
C14_FailedFetchKeepsList ==
    lastResolved.answer \notin {"none", "ok"}
        => (AdminState.cars = lastResolved.cars
            /\ inventoryTbody = lastResolved.table)

\* C16: an update (PUT) submitted from the dashboard while
\* AdminState.imagesTouched is false carries neither image files nor an image
\* URL.
C16_UntouchedUpdateHasNoImages ==
    (script = "services" /\ act.kind = "save" /\ act.method = "PUT" /\ ~act.touched)
        => ~act.images

\* ======================================================================
\* The public catalog page: SpecCatalog
\* ======================================================================
MaxListed == 2    \* vehicles one response of GET /api/vehicles lists

\* a vehicle of the response; id 0 stands for a row without id
ListedCars == [id : 0..2, sold : BOOLEAN]

RECURSIVE ListsUpTo(_)
ListsUpTo(n) ==
    IF n = 0 THEN {<<>>}
    ELSE LET shorter == ListsUpTo(n - 1)
         IN  shorter \cup {Append(l, c) : l \in {x \in shorter : Len(x) = n - 1},
                                          c \in ListedCars}

CatalogAnswers == {"ok", "notarray", "error", "network"}

\* fetchVehiclesFromAPI: the list, or [] when the response is not ok, the
\* fetch rejects or the body is not an array
fetchVehiclesFromAPI(answer, data) == IF answer = "ok" THEN data ELSE <<>>

\* the filter of renderInventory: cars without id and repeated ids are left out
RECURSIVE uniqueCars(_, _)
uniqueCars(cars, seen) ==
    IF cars = <<>> THEN <<>>
    ELSE LET car == Head(cars)
         IN  IF car.id = 0 \/ car.id \in seen
             THEN uniqueCars(Tail(cars), seen)
             ELSE <<car>> \o uniqueCars(Tail(cars), seen \cup {car.id})

LoadingGrid == [view |-> "loading", cards |-> <<>>]
NoInventoryGrid == [view |-> "no-inventory", cards |-> <<>>]

\* what renderInventory puts into the grid once fetchVehiclesFromAPI is back
GridOf(cars) ==
    IF Len(cars) = 0 THEN NoInventoryGrid
    ELSE [view |-> "cards", cards |-> uniqueCars(cars, {})]

\* the options populateVehicleDropdown appends: sold vehicles are left out
OptionsOf(cars) == SelectSeq(cars, LAMBDA car : ~car.sold)

\* the page is loaded and init() runs: renderInventory shows the loading
\* state and awaits the list, populateVehicleDropdown awaits it as well
PageLoad ==
    /\ page' = [render |-> "fetching", before |-> StaticGrid, answer |-> "none",
                dropdown |-> "fetching"]
    /\ grid' = LoadingGrid
    /\ vehicleSelect' = <<>>

\* renderInventory after the await
RenderResolve(answer, data) ==
    /\ page.render = "fetching"
    /\ grid' = GridOf(fetchVehiclesFromAPI(answer, data))
    /\ page' = [page EXCEPT !.render = "done", !.answer = answer]
    /\ UNCHANGED vehicleSelect

\* populateVehicleDropdown after the await
DropdownResolve(answer, data) ==
    /\ page.dropdown = "fetching"
    /\ vehicleSelect' = OptionsOf(fetchVehiclesFromAPI(answer, data))
    /\ page' = [page EXCEPT !.dropdown = "done"]
    /\ UNCHANGED grid

\* the contact form was sent: form.reset(), then populateVehicleDropdown again
DropdownRepopulate ==
    /\ page.dropdown = "done"
    /\ vehicleSelect' = <<>>
    /\ page' = [page EXCEPT !.dropdown = "fetching"]
    /\ UNCHANGED grid

NextCatalog ==
    /\ \/ PageLoad
       \/ DropdownRepopulate
       \/ \E answer \in CatalogAnswers, data \in ListsUpTo(MaxListed) :
              RenderResolve(answer, data)
       \/ \E answer \in CatalogAnswers, data \in ListsUpTo(MaxListed) :
              DropdownResolve(answer, data)
    /\ UNCHANGED <<pvars, gvars, avars, fvars, nvars, bvars>>

SpecCatalog == Init /\ [][NextCatalog]_vars

\* C15: when the inventory fetch of the catalog page fails (the fetch rejects
\* or the response is not ok), the grid is left as it was before the fetch and
\* does not show the "no inventory" view.
C15_FailedFetchKeepsGrid ==
    (page.render = "done" /\ page.answer \in {"error", "network"})
        => (grid = page.before /\ grid.view # "no-inventory")

\* ======================================================================
\* The field checks of create and update: SpecFields
\* ======================================================================
\* The text of a multipart field is the sequence of its characters; a field
\* the body does not have is Undefined.
Undefined == <<"undefined">>

Digits == {"0", "1", "2", "3", "4", "5", "6", "7", "8", "9"}
DigitValue(c) ==
    CASE c = "0" -> 0 [] c = "1" -> 1 [] c = "2" -> 2 [] c = "3" -> 3
      [] c = "4" -> 4 [] c = "5" -> 5 [] c = "6" -> 6 [] c = "7" -> 7
      [] c = "8" -> 8 [] c = "9" -> 9

RECURSIVE Pow10(_)
Pow10(n) == IF n = 0 THEN 1 ELSE 10 * Pow10(n - 1)

\* a JavaScript number: NaN, or a value that is an integer (val) or lies
\* between val and val + 1 in magnitude
NaN == [nan |-> TRUE, int |-> FALSE, val |-> 0]
Num(v) == [nan |-> FALSE, int |-> TRUE, val |-> v]
Fraction(v) == [nan |-> FALSE, int |-> FALSE, val |-> v]
Signed(neg, n) == IF neg THEN [n EXCEPT !.val = 0 - n.val] ELSE n

\* what a scan of a text has read so far: the rest of the text, where in the
\* literal it is, the sign, the digits of the mantissa as a number, how many
\* of them follow the point, and the exponent
ScanStates ==
    [rest : Seq(STRING),
     at : {"start", "int", "frac", "expsign", "exp", "trail", "over", "bad"},
     neg : BOOLEAN, mant : Nat, seen : BOOLEAN, frac : Nat,
     eneg : BOOLEAN, exp : Nat, eseen : BOOLEAN]

ScanStart(text) ==
    [rest |-> text, at |-> "start", neg |-> FALSE, mant |-> 0, seen |-> FALSE,
     frac |-> 0, eneg |-> FALSE, exp |-> 0, eseen |-> FALSE]

\* parseInt(text, 10), character by character: leading blanks, a sign, then
\* digits up to the first character that is none
parseIntScan[st \in ScanStates] ==
    IF st.rest = <<>> \/ st.at = "over" THEN st
    ELSE LET c == Head(st.rest)
             on == [st EXCEPT !.rest = Tail(st.rest)]
         IN  CASE c \in Digits ->
                    parseIntScan[[on EXCEPT !.at = "int", !.seen = TRUE,
                                            !.mant = @ * 10 + DigitValue(c)]]
               [] c = " " /\ st.at = "start" -> parseIntScan[on]
               [] c \in {"+", "-"} /\ st.at = "start" ->
                    parseIntScan[[on EXCEPT !.at = "int", !.neg = (c = "-")]]
               [] OTHER -> [on EXCEPT !.at = "over"]

parseInt(text) ==
    IF text = Undefined THEN NaN
    ELSE LET st == parseIntScan[ScanStart(text)]
         IN  IF st.seen THEN Signed(st.neg, Num(st.mant)) ELSE NaN

\* x || null of parseVehicleFields: NaN and 0 become null
OrNull(n) == IF n.nan \/ n.val = 0 THEN Null ELSE n.val

\* Number(text), character by character, for a decimal literal: blanks
\* around it, a sign, digits with an optional fraction and an optional
\* exponent
NumberScan[st \in ScanStates] ==
    IF st.rest = <<>> \/ st.at = "bad" THEN st
    ELSE LET c == Head(st.rest)
             on == [st EXCEPT !.rest = Tail(st.rest)]
             literal == \/ st.at \in {"int", "frac"} /\ st.seen
                        \/ st.at = "exp" /\ st.eseen
         IN  CASE c \in Digits /\ st.at \in {"start", "int"} ->
                    NumberScan[[on EXCEPT !.at = "int", !.seen = TRUE,
                                          !.mant = @ * 10 + DigitValue(c)]]
               [] c \in Digits /\ st.at = "frac" ->
                    NumberScan[[on EXCEPT !.seen = TRUE, !.frac = @ + 1,
                                          !.mant = @ * 10 + DigitValue(c)]]
               [] c \in Digits /\ st.at \in {"expsign", "exp"} ->
                    NumberScan[[on EXCEPT !.at = "exp", !.eseen = TRUE,
                                          !.exp = @ * 10 + DigitValue(c)]]
               [] c = " " /\ st.at = "start" -> NumberScan[on]
               [] c = " " /\ (literal \/ st.at = "trail") ->
                    NumberScan[[on EXCEPT !.at = "trail"]]
               [] c \in {"+", "-"} /\ st.at = "start" ->
                    NumberScan[[on EXCEPT !.at = "int", !.neg = (c = "-")]]
               [] c \in {"+", "-"} /\ st.at = "expsign" ->
                    NumberScan[[on EXCEPT !.at = "exp", !.eneg = (c = "-")]]
               [] c = "." /\ st.at \in {"start", "int"} ->
                    NumberScan[[on EXCEPT !.at = "frac"]]
               [] c \in {"e", "E"} /\ st.at \in {"int", "frac"} /\ st.seen ->
                    NumberScan[[on EXCEPT !.at = "expsign"]]
               [] OTHER -> [on EXCEPT !.at = "bad"]

\* the number a finished scan stands for: "" and blanks are 0, a text that is
\* no literal is NaN
NumberValue(st) ==
    LET k == (IF st.eneg THEN 0 - st.exp ELSE st.exp) - st.frac
    IN  IF st.at = "start" /\ ~st.neg THEN Num(0)
        ELSE IF ~(\/ st.at \in {"int", "frac", "trail"} /\ st.seen
                  \/ st.at = "exp" /\ st.eseen)
            THEN NaN
        ELSE IF k >= 0 THEN Signed(st.neg, Num(st.mant * Pow10(k)))
        ELSE IF st.mant % Pow10(0 - k) = 0
            THEN Signed(st.neg, Num(st.mant \div Pow10(0 - k)))
        ELSE Signed(st.neg, Fraction(st.mant \div Pow10(0 - k)))

Number(text) == NumberValue(NumberScan[ScanStart(text)])

\* ----- the texts of the numeric fields -----
YearTexts ==
    {Undefined,
     <<>>,
     <<"0">>,
     <<"1", "8", "9", "9">>,
     <<"1", "9", "0", "0">>,
     <<"2", "0", "2", "0">>,
     <<"2", "0", "2", "8">>,
     <<"2", "0", "2", "9">>,
     <<"a", "b", "c">>,
     <<"2", "0", "2", "0", ".", "5">>,
     <<"2", "e", "3">>,
     <<"2", "0", "0", "0", "0", "e", "-", "1">>,
     <<" ", "2", "0", "2", "0", " ">>}

PriceTexts ==
    {Undefined,
     <<>>,
     <<"0">>,
     <<"1", "5", "0", "0", "0">>,
     <<"1", "0", "0", "0", "0", "0", "0", "0">>,
     <<"1", "0", "0", "0", "0", "0", "0", "1">>,
     <<"-", "1">>,
     <<"1", "0", "0", "0", "0", "0", "0", "0", "0", "e", "-", "1">>}

MileageTexts ==
    {Undefined,
     <<>>,
     <<"0">>,
     <<"4", "2", "0", "0", "0">>,
     <<"1", "0", "0", "0", "0", "0", "0">>,
     <<"1", "0", "0", "0", "0", "0", "1">>,
     <<"1", "0", "0", "0", "0", "0", "0", "0", "e", "-", "1">>}

\* Number and parseInt of each of these texts, worked out once
NumericTexts == YearTexts \cup PriceTexts \cup MileageTexts
NumberOf == [text \in NumericTexts \ {Undefined} |-> Number(text)]
parseIntOf == [text \in NumericTexts |-> parseInt(text)]

\* ----- vehicleSchema -----
YearMin == 1900
PriceMax == 10000000
MileageMax == 1000000
\* .max(new Date().getFullYear() + 2), evaluated once, when the schema is built
YearMax == StartYear + 2

\* z.preprocess(val => "" / null / undefined -> null, else Number(val)) into
\* z.number().int().min(lo).max(hi).nullable()
NumberFieldValid(text, lo, hi) ==
    \/ text = Undefined
    \/ text = <<>>
    \/ LET n == NumberOf[text]
       IN  ~n.nan /\ n.int /\ n.val >= lo /\ n.val <= hi

\* faulty variant: the year has no upper limit
yearValid_NoMax(text) ==
    \/ text \in {Undefined, <<>>}
    \/ LET n == NumberOf[text] IN ~n.nan /\ n.int /\ n.val >= YearMin

yearValid(text) == NumberFieldValid(text, YearMin, YearMax)
priceValid(text) == NumberFieldValid(text, 0, PriceMax)
mileageValid(text) == NumberFieldValid(text, 0, MileageMax)

\* an external URL as text: whether new URL() parses it, the part of its path
\* after the last dot, and whether it is longer than 2000 characters
UrlText(absolute, ext, long) ==
    [host |-> "other", id |-> Null, absolute |-> absolute, ext |-> ext, long |-> long]

toLowerCase(ext) ==
    CASE ext = "JPG" -> "jpg" [] ext = "PNG" -> "png" [] OTHER -> ext

\* isValidImageUrl of the dashboard script
isValidImageUrl(url) ==
    /\ url # NoUrl
    /\ url.absolute
    /\ toLowerCase(url.ext) \in {"jpg", "jpeg", "png", "webp"}

\* image_url: z.string().max(2000).optional()
image_urlValid(image_url) ==
    \/ image_url.form = "absent"
    \/ image_url.items[1].url = NoUrl
    \/ ~image_url.items[1].url.long

\* z.object({...}).strict()
vehicleSchema(fields) ==
    /\ ~fields.unknown
    /\ yearValid(fields.year)
    /\ priceValid(fields.price)
    /\ mileageValid(fields.mileage)
    /\ image_urlValid(fields.image_url)

\* the loop over ALLOWED_VEHICLE_FIELDS: only the allowed keys are copied
FilteredFields(body) == [body EXCEPT !.unknown = FALSE]

validateVehicleFields(body) == vehicleSchema(FilteredFields(body))

\* parseVehicleFields: the numbers the row is written with
parseVehicleFields(body) ==
    [year |-> OrNull(parseIntOf[body.year]),
     price |-> OrNull(parseIntOf[body.price]),
     mileage |-> OrNull(parseIntOf[body.mileage])]

\* ----- request bodies -----
\* image_url texts: none, "", and URLs right and wrong
ImageUrlTexts ==
    {Absent, Plain(NoUrl),
     Plain(UrlText(TRUE, "jpg", FALSE)),
     Plain(UrlText(TRUE, "PNG", FALSE)),
     Plain(UrlText(TRUE, "gif", FALSE)),
     Plain(UrlText(FALSE, "jpg", FALSE)),
     Plain(UrlText(FALSE, "", FALSE)),
     Plain(UrlText(TRUE, "jpg", TRUE))}

\* what the dashboard sends for a car without images
DefaultBody ==
    [year |-> <<"2", "0", "2", "0">>, price |-> <<"1", "5", "0", "0", "0">>,
     mileage |-> <<"4", "2", "0", "0", "0">>, unknown |-> FALSE, image_url |-> Absent]

\* bodies that differ from it in one field
Bodies ==
    {[DefaultBody EXCEPT !.year = y] : y \in YearTexts}
    \cup {[DefaultBody EXCEPT !.price = p] : p \in PriceTexts}
    \cup {[DefaultBody EXCEPT !.mileage = m] : m \in MileageTexts}
    \cup {[DefaultBody EXCEPT !.image_url = u] : u \in ImageUrlTexts}
    \cup {[DefaultBody EXCEPT !.unknown = TRUE]}

\* ----- the handlers, from validation to the answer -----
MaxYearsOn == 1    \* new years the server lives through

\* :id of PUT /api/vehicles/:id, by /^\d+$/ and its value
PutIds == {[numeric |-> FALSE, n |-> 0]}
          \cup {[numeric |-> TRUE, n |-> n] : n \in 1..(MaxVehicles + 1)}

RowOf(body, images) ==
    LET v == parseVehicleFields(body)
    IN  [year |-> v.year, price |-> v.price, mileage |-> v.mileage, images |-> images]

\* the answer, and whether the table is now another than before the request
Answered(op, id, body, status) ==
    lastSave' = [op |-> op, id |-> id, body |-> body, status |-> status,
                 changed |-> vehicleRows' # vehicleRows, year |-> thisYear]

\* POST /api/vehicles without files, past the middleware, the database
\* carrying out what it is asked
CreateVehicle(body) ==
    /\ IF ~validateVehicleFields(body)
       THEN UNCHANGED vehicleRows /\ Answered("POST", 0, body, 400)
       ELSE /\ Len(vehicleRows) < MaxVehicles
            /\ vehicleRows' =
                   Append(vehicleRows,
                          RowOf(body, buildImagesArray(<<>>, body.image_url, <<>>)))
            /\ Answered("POST", Len(vehicleRows) + 1, body, 201)
    /\ UNCHANGED thisYear

\* PUT /api/vehicles/:id without files, past the middleware
UpdateVehicle(id, body) ==
    /\ IF ~id.numeric \/ ~validateVehicleFields(body)
       THEN UNCHANGED vehicleRows /\ Answered("PUT", id.n, body, 400)
       ELSE IF id.n \notin DOMAIN vehicleRows
       THEN UNCHANGED vehicleRows /\ Answered("PUT", id.n, body, 404)
       ELSE /\ vehicleRows' =
                   [vehicleRows EXCEPT ![id.n] =
                       RowOf(body,
                             buildImagesArray(<<>>, body.image_url,
                                              normalizeImagesFromDb(@.images)))]
            /\ Answered("PUT", id.n, body, 200)
    /\ UNCHANGED thisYear

\* the server's clock passes into the next year; the schema stays as built
NewYear ==
    /\ thisYear < StartYear + MaxYearsOn
    /\ thisYear' = thisYear + 1
    /\ UNCHANGED <<vehicleRows, lastSave>>

NextFields ==
    /\ \/ \E body \in Bodies : CreateVehicle(body)
       \/ \E id \in PutIds, body \in Bodies : UpdateVehicle(id, body)
       \/ NewYear
    /\ UNCHANGED <<pvars, gvars, avars, cvars, nvars, bvars>>

SpecFields == Init /\ [][NextFields]_vars

\* ----- claims about the field checks -----
Saved == lastSave.op # "none"
NothingWritten == ~lastSave.changed

\* the year of the request is a number outside [YearMin, lastSave.year + 2]
YearOutsideRange ==
    /\ lastSave.body.year \notin {Undefined, <<>>}
    /\ LET n == NumberOf[lastSave.body.year]
           hi == lastSave.year + 2
       IN  /\ ~n.nan
           /\ n.val < YearMin \/ n.val > hi \/ (n.val = hi /\ ~n.int)

\* C17: a create or update whose year is a number outside
\* [1900, current year + 2] is answered 400 and no row is inserted or changed.
C17_YearOutsideRangeRefused ==
    (Saved /\ YearOutsideRange) => (lastSave.status = 400 /\ NothingWritten)

\* an update of an existing row with a year beyond the range was refused
C17_Witness ==
    /\ Saved /\ YearOutsideRange
    /\ lastSave.op = "PUT" /\ lastSave.id \in DOMAIN vehicleRows
    /\ NumberOf[lastSave.body.year].val > lastSave.year + 2
    /\ lastSave.status = 400

InRangeOrAbsent(v, lo, hi) == v = Null \/ (v >= lo /\ v <= hi)

\* C18: every row of the vehicles table has its year absent or in
\* [1900, current year + 2], its price absent or in [0, 10,000,000] and its
\* mileage absent or in [0, 1,000,000].
C18_RowsWithinBounds ==
    \A id \in DOMAIN vehicleRows :
        /\ InRangeOrAbsent(vehicleRows[id].year, YearMin, thisYear + 2)
        /\ InRangeOrAbsent(vehicleRows[id].price, 0, PriceMax)
        /\ InRangeOrAbsent(vehicleRows[id].mileage, 0, MileageMax)

\* C19: a create or update whose body has a field outside the allow-list is
\* answered 400 and writes nothing.
C19_UnknownFieldRefused ==
    (Saved /\ lastSave.body.unknown) => (lastSave.status = 400 /\ NothingWritten)

\* the image_url of the request is a text that is no valid image URL
BadImageUrl ==
    /\ lastSave.body.image_url.form = "plain"
    /\ ~isValidImageUrl(lastSave.body.image_url.items[1].url)

\* C20: a create or update whose image_url is not an absolute URL ending in
\* .jpg, .jpeg, .png or .webp is answered 400, and no row's image list holds
\* an external URL that is not one.
C20_BadImageUrlRefused ==
    /\ (Saved /\ BadImageUrl) => (lastSave.status = 400 /\ NothingWritten)
    /\ \A id \in DOMAIN vehicleRows :
           \A i \in DOMAIN vehicleRows[id].images :
               LET url == vehicleRows[id].images[i].url
               IN  url.host = "other" => isValidImageUrl(url)

\* ======================================================================
\* Image references supplied by URL: SpecExternal
\* ======================================================================
\* a public id of the image store that none of these uploads was given
ForeignId == MaxUploads + 1

\* The image_url values of SpecExternal: a URL on another host, the URL of an
\* image of the image store that no request here uploaded, and a JSON array
\* whose one object names a URL on another host and a public id of its own.
ExternalUrls ==
    {Plain(ExtUrl(1)), Plain(CldUrl(ForeignId)),
     JsonArray(<<ObjItem(ExtUrl(1), ForeignId)>>)}

MaxExternalFiles == 1

\* SpecExternal: the requests of Spec, their images supplied by URL
NextExternal ==
    \E r \in Reqs :
        /\ \/ \E n \in 0..MaxExternalFiles, u \in ExternalUrls : PostVehicle(r, n, u)
           \/ \E id \in 1..MaxVehicles, n \in 0..MaxExternalFiles,
                 u \in ExternalUrls \cup {Absent}, dberr \in BOOLEAN :
                    PutVehicle(r, id, n, u, dberr)
           \/ \E id \in 1..MaxVehicles, dberr \in BOOLEAN : DeleteVehicle(r, id, dberr)
           \/ Handler(r)
        /\ UNCHANGED <<gvars, xvars>>

SpecExternal == Init /\ [][NextExternal]_vars

\* the image references request r took from image_url
SuppliedByUrl(r) == Range(ImagesFromUrl(req[r].image_url))

\* C21: an image reference that entered a vehicle's image list as an
\* externally supplied URL carries no deletion handle, and no Update or
\* Delete passes a handle for it to the remote Delete: every handle passed is
\* one the image store issued for an upload.
C21_NoHandleForExternalUrl ==
    \A r \in Reqs :
        /\ req[r].wrote =>
              \A img \in SuppliedByUrl(r) \cap Range(req[r].written) :
                  img.publicId = Null
        /\ Range(req[r].destroyed) \subseteq Issued

\* the part of C21 the plain URL of another host bears out
C21_OtherHostNeverDeleted ==
    \A r \in Reqs :
        (req[r].image_url = Plain(ExtUrl(1)) /\ req[r].wrote) =>
            \A img \in SuppliedByUrl(r) :
                img.publicId = Null /\ extractPublicIdFromUrl(img.url) = Null

\* ----- the honeypot of the contact form (SpecGate) -----
HoneypotFilled == last.op = "post_contact" /\ last.website # ""
ContactRefusedAhead == last.by \in {"apiLimiter", "contactOriginCheck", "contactLimiter"}

JsNull == [t |-> "null"]
JsNum(n) == [t |-> "number", n |-> n]
Str(s) == [t |-> "string", json |-> FALSE, s |-> s]
JsonText(v) == [t |-> "string", json |-> TRUE, of |-> v]
Obj(url, secure_url) == [t |-> "object", url |-> url, secure_url |-> secure_url]
Arr(items) == [t |-> "array", items |-> items]
EmptyString == Str(<<>>)

RECURSIVE trimStart(_)
trimStart(s) == IF s # <<>> /\ Head(s) = " " THEN trimStart(Tail(s)) ELSE s

RECURSIVE trimEnd(_)
trimEnd(s) ==
    IF s # <<>> /\ s[Len(s)] = " " THEN trimEnd(SubSeq(s, 1, Len(s) - 1)) ELSE s

\* val.trim() of a string; JSON.stringify puts no white space around its text
trim(val) == IF val.json THEN val ELSE Str(trimEnd(trimStart(val.s)))

\* Boolean(val)
Truthy(val) ==
    CASE val.t = "undefined" -> FALSE
      [] val.t = "null" -> FALSE
      [] val.t = "number" -> val.n # 0
      [] val.t = "string" -> val.json \/ val.s # <<>>
      [] OTHER -> TRUE

\* a || b
Or(a, b) == IF Truthy(a) THEN a ELSE b

\* val.url || val.secure_url || '' of an object or an array (which has neither)
UrlOf(val) ==
    IF val.t = "array" THEN EmptyString
    ELSE Or(Or(val.url, val.secure_url), EmptyString)

\* typeof val === 'object' of a truthy val
IsObject(val) == val.t \in {"object", "array"}

\* script.js 1-12, for strings that are not JSON text
getImageUrl(val) ==
    IF val.t = "string" /\ Truthy(trim(val))
    THEN LET t == trim(val)
         IN  IF /\ Head(t.s) \notin {"http://", "https://"}
                /\ Head(t.s) \notin {"/", "/uploads/"}
                /\ "cloudinary.com" \notin Range(t.s)
             THEN Str(<<"/uploads/">> \o t.s)
             ELSE t
    ELSE IF IsObject(val) THEN UrlOf(val)
    ELSE EmptyString

\* the element normalizeImageArray's map makes of one candidate
ImageOf(val) ==
    IF val.t = "string" /\ Truthy(trim(val)) THEN trim(val)
    ELSE IF IsObject(val) THEN UrlOf(val)
    ELSE EmptyString

RECURSIVE MapImages(_)
MapImages(arr) ==
    IF arr = <<>> THEN <<>> ELSE <<ImageOf(Head(arr))>> \o MapImages(Tail(arr))

RECURSIVE FilterBoolean(_)
FilterBoolean(arr) ==
    IF arr = <<>> THEN <<>>
    ELSE IF Truthy(Head(arr)) THEN <<Head(arr)>> \o FilterBoolean(Tail(arr))
    ELSE FilterBoolean(Tail(arr))

\* the list arr that normalizeImageArray maps over
Candidates(input) ==
    IF input.t = "array" THEN input.items
    ELSE IF input.t = "string" THEN
        IF input.json
        THEN LET parsed == input.of
             IN  IF parsed.t = "array" THEN parsed.items
                 ELSE IF parsed.t = "object" THEN <<parsed>>
                 ELSE IF parsed.t = "string" THEN <<parsed>>
                 ELSE <<>>
        ELSE IF Truthy(trim(input)) THEN <<trim(input)>> ELSE <<>>
    ELSE IF input.t = "object" THEN <<input>>
    ELSE <<>>

\* script.js 14-39: the returned list
normalizeImageArray(input) == FilterBoolean(MapImages(Candidates(input)))

\* script.js 56-86: images and mainImage of the vehicle
normalizeVehicle(v) ==
    LET images == normalizeImageArray(Or(v.images, v.images_json))
    IN  [pc |-> "normalized", images |-> images,
         mainImage |-> IF images = <<>> THEN EmptyString ELSE Or(images[1], EmptyString)]

\* ----- inputs -----
MaxItems == 2    \* items of an array

Texts ==
    { <<>>, <<" ">>, <<"a.jpg">>, <<" ", "a.jpg", " ">>, <<"/", "a.jpg">>,
      <<"https://", "host", "/", "a.jpg">>, <<"cloudinary.com", "/", "a.jpg">> }

UrlValues ==
    {JsUndefined, JsNum(42), Str(<<"a.jpg">>), Str(<<" ", "a.jpg">>), Str(<<" ">>),
     Obj(Str(<<"a.jpg">>), JsUndefined)}

Items ==
    {Str(s) : s \in Texts}
    \cup {Obj(u, JsUndefined) : u \in UrlValues}
    \cup {Obj(JsUndefined, Str(<<"https://", "host", "/", "a.jpg">>))}
    \cup {JsNull, JsNum(42), Arr(<<Str(<<"a.jpg">>)>>)}

Arrays == UNION {[1..n -> Items] : n \in 0..MaxItems}

RawInputs ==
    {JsUndefined, JsNull, JsNum(42)}
    \cup {Arr(a) : a \in Arrays}
    \cup {JsonText(Arr(a)) : a \in Arrays}
    \cup {Str(s) : s \in Texts}
    \cup {JsonText(Str(s)) : s \in Texts}
    \cup {Obj(u, JsUndefined) : u \in UrlValues}
    \cup {JsonText(Obj(u, JsUndefined)) : u \in UrlValues}
    \cup {JsonText(JsNull), JsonText(JsNum(42))}

\* rows as GET /api/vehicles may return them: images, or images_json alone
ApiRows ==
    {[images |-> r, images_json |-> JsUndefined] : r \in RawInputs}
    \cup {[images |-> JsUndefined, images_json |-> JsonText(Arr(a))] :
             a \in {b \in Arrays : Len(b) = 1}}

InitNormalize ==
    /\ InitStores /\ InitGate /\ AdminIdle /\ CatalogIdle /\ FieldsIdle /\ PayloadIdle
    /\ apiRow \in ApiRows
    /\ vehicle = NoVehicle
    /\ twice = NotTwice

\* normalizeVehicle(v)
NormalizeVehicle ==
    /\ vehicle.pc = "fetched"
    /\ vehicle' = normalizeVehicle(apiRow)
    /\ UNCHANGED <<apiRow, twice>>

\* normalizeImageArray of the list it returned
NormalizeAgain ==
    /\ vehicle.pc = "normalized"
    /\ twice.direct = NotRun
    /\ twice' = [twice EXCEPT !.direct = Arr(normalizeImageArray(Arr(vehicle.images)))]
    /\ UNCHANGED <<apiRow, vehicle>>

\* normalizeImageArray of JSON.stringify of the list it returned
NormalizeSerialized ==
    /\ vehicle.pc = "normalized"
    /\ twice.serialized = NotRun
    /\ twice' = [twice EXCEPT
                   !.serialized = Arr(normalizeImageArray(JsonText(Arr(vehicle.images))))]
    /\ UNCHANGED <<apiRow, vehicle>>

NextNormalize ==
    /\ \/ NormalizeVehicle
       \/ NormalizeAgain
       \/ NormalizeSerialized
    /\ UNCHANGED <<pvars, gvars, avars, cvars, fvars, bvars>>

SpecNormalize == InitNormalize /\ [][NextNormalize]_vars

\* the raw input of normalizeVehicle's call
RawOf(v) == Or(v.images, v.images_json)

RECURSIVE IsSubsequence(_, _)
\* a is b with some elements left out
IsSubsequence(a, b) ==
    IF a = <<>> THEN TRUE
    ELSE IF b = <<>> THEN FALSE
    ELSE IF Head(a) = Head(b) THEN IsSubsequence(Tail(a), Tail(b))
    ELSE IsSubsequence(a, Tail(b))

NonEmptyString(val) == val.t = "string" /\ val # EmptyString

\* C23: for every raw input every element of the list normalizeImageArray
\* returns is a non-empty string, and the elements keep the order of the
\* input items they came from.
C23_NonEmptyStringsInOrder ==
    vehicle.pc = "normalized" =>
        /\ \A i \in DOMAIN vehicle.images : NonEmptyString(vehicle.images[i])
        /\ IsSubsequence(vehicle.images, MapImages(Candidates(RawOf(apiRow))))

\* the part of C23 that holds: order is kept, nothing empty is returned
C23_InOrder ==
    vehicle.pc = "normalized" =>
        /\ \A i \in DOMAIN vehicle.images : Truthy(vehicle.images[i])
        /\ IsSubsequence(vehicle.images, MapImages(Candidates(RawOf(apiRow))))

\* C24: normalizing a normalized list yields that same list, whether the
\* list is passed as it is or as its JSON serialization.
C24_Idempotent ==
    /\ twice.direct # NotRun => twice.direct = Arr(vehicle.images)
    /\ twice.serialized # NotRun => twice.serialized = Arr(vehicle.images)

\* C25: every element that came from a bare filename is returned as
\* /uploads/<name>, every other string element trimmed and otherwise
\* unchanged: a string item's element is what getImageUrl makes of it.
C25_BareFilenamesRewritten ==
    vehicle.pc = "normalized" =>
        \A item \in Range(Candidates(RawOf(apiRow))) :
            (item.t = "string" /\ Truthy(trim(item))) =>
                getImageUrl(item) \in Range(vehicle.images)

\* the part of C25 that holds: every string element is returned trimmed
C25_StringsTrimmed ==
    vehicle.pc = "normalized" =>
        \A item \in Range(Candidates(RawOf(apiRow))) :
            (item.t = "string" /\ Truthy(trim(item))) =>
                trim(item) \in Range(vehicle.images)

\* ----- the order of uploads and of the stored list (Spec) -----
Saves(r) == req[r].kind \in {"create", "update"}
SuppliesImages(r) == req[r].files > 0 \/ ImagesFromUrl(req[r].image_url) # <<>>

\* the uploads of r came back one after the other, in the order of results
UploadedInOrder(r) ==
    /\ Len(req[r].results) <= req[r].files
    /\ \A i, j \in DOMAIN req[r].results :
          i < j => req[r].results[i].publicId < req[r].results[j].publicId

\* a step of a request that is uploading adds at most one image, at the end
\* of its results, and none once an upload has failed
OneUploadAtATime(r) ==
    req[r].pc = "upload" =>
        \/ req'[r].results = req[r].results
        \/ /\ Len(req'[r].results) = Len(req[r].results) + 1
           /\ SubSeq(req'[r].results, 1, Len(req[r].results)) = req[r].results
           /\ req'[r].err = "none"

KeySet(keys) == [null |-> FALSE, keys |-> keys]    \* new Set(Object.keys(row))

CoreFields == {"year", "make", "model", "trim", "price", "mileage", "description"}
SnakeKeys == {"exterior_color", "interior_color", "fuel_type"}
CamelKeys == {"exteriorColor", "interiorColor", "fuelType"}

\* rows as objects, by their keys, and a row that is null
NullRow == [null |-> TRUE, keys |-> {}]
RowShapes ==
    {[null |-> FALSE, keys |-> base \cup extra] :
        base \in {{}, {"id", "year", "make"}, CoreFields \cup {"id", "status"}},
        extra \in SUBSET {"exterior_color", "exteriorColor", "transmission",
                          "images", "images_json", "image_url"}}

\* detectApiSchemaFromRow: Object.keys(null) throws in the services script,
\* the vehicle script returns at once; either way AdminState is as it was
detectApiSchemaFromRow(sh, row) ==
    IF row.null THEN sh
    ELSE LET keys == row.keys
             hasSnake == keys \cap SnakeKeys # {}
             hasCamel == keys \cap CamelKeys # {}
         IN  [sh EXCEPT
                !.apiKeys = KeySet(keys),
                !.casing =
                    IF sh.script = "services"
                    THEN (IF hasCamel THEN "camel"
                          ELSE IF hasSnake THEN "snake" ELSE "unknown")
                    ELSE (IF hasSnake THEN "snake"
                          ELSE IF hasCamel THEN "camel" ELSE "unknown"),
                !.imagesStorage =
                    IF "images_json" \in keys THEN "images_json"
                    ELSE IF "images" \in keys THEN "images"
                    ELSE IF "image_url" \in keys THEN "image_url"
                    ELSE "none"]

\* faulty variant: a key is set whatever the detected key set holds
maybeSet_Always(keys, k) == TRUE

\* maybeSet: whether payload[k] is set
maybeSet(keys, k) == ~(~keys.null /\ k \notin keys.keys)

\* Number(x) || 0
OrZero(n) == IF n.nan \/ n.val = 0 THEN 0 ELSE n.val

\* the key the images go under
ImagesKey(imagesStorage) ==
    IF imagesStorage \in {"images_json", "images", "image_url"}
    THEN {imagesStorage} ELSE {}

\* carData.images.filter(Boolean), [] for what is no array
ImagesArr(images) == IF images.t = "array" THEN FilterBoolean(images.items) ELSE <<>>

\* the keys buildPayloadForApi sets
PayloadKeys(sh) ==
    LET keys == sh.apiKeys
        schemaUnknown == keys.null
        optional == (IF sh.casing = "camel" THEN CamelKeys ELSE SnakeKeys)
                        \cup {"transmission", "engine", "drivetrain"}
    IN  {k \in CoreFields : schemaUnknown \/ maybeSet(keys, k)}
        \cup {k \in optional : (schemaUnknown \/ k \in keys.keys) /\ maybeSet(keys, k)}
        \cup (IF sh.script = "services"
              THEN (IF sh.imagesTouched THEN ImagesKey(sh.imagesStorage) ELSE {})
              ELSE {k \in ImagesKey(sh.imagesStorage) :
                        schemaUnknown \/ maybeSet(keys, k)})

\* buildPayloadForApi(carData): the payload, key by key
buildPayloadForApi(sh, carData) ==
    [k \in PayloadKeys(sh) |->
        CASE k \in {"year", "price", "mileage"} -> OrZero(NumberOf[carData.number])
          [] k = "images_json" -> JsonText(Arr(ImagesArr(carData.images)))
          [] k = "images" -> Arr(ImagesArr(carData.images))
          [] k = "image_url" ->
                IF ImagesArr(carData.images) = <<>> THEN EmptyString
                ELSE Or(ImagesArr(carData.images)[1], EmptyString)
          [] OTHER -> carData.text]

\* car data: the text of year, price and mileage, the text of the other
\* fields, and images
CarDatas ==
    [number : {<<>>, <<"2", "0", "2", "0">>, <<"a", "b", "c">>},
     text : {"", "Ford"},
     images : {JsUndefined, Arr(<<>>), Arr(<<Str(<<"https://", "host", "/", "a.jpg">>)>>)}]

InitPayload ==
    /\ InitStores /\ InitGate /\ AdminIdle /\ CatalogIdle /\ FieldsIdle /\ NormalizeIdle
    /\ shape \in {InitShape(s) : s \in AdminScripts}
    /\ lastPayload = NoPayload

\* fetchCarsAndRender's detectApiSchemaFromRow(list[0])
DetectSchema(row) ==
    /\ shape' = detectApiSchemaFromRow(shape, row)
    /\ lastPayload' = NoPayload

\* the image inputs' change listeners of the services script
TouchImages ==
    /\ shape.script = "services"
    /\ shape' = [shape EXCEPT !.imagesTouched = TRUE]
    /\ lastPayload' = NoPayload

\* resetForm and enterEditMode of the services script
UntouchImages ==
    /\ shape.script = "services"
    /\ shape' = [shape EXCEPT !.imagesTouched = FALSE]
    /\ lastPayload' = NoPayload

BuildPayload(carData) ==
    /\ lastPayload' = [built |-> TRUE, carData |-> carData,
                       payload |-> buildPayloadForApi(shape, carData)]
    /\ UNCHANGED shape

NextPayload ==
    /\ \/ \E row \in RowShapes \cup {NullRow} : DetectSchema(row)
       \/ TouchImages
       \/ UntouchImages
       \/ \E carData \in CarDatas : BuildPayload(carData)
    /\ UNCHANGED <<pvars, gvars, avars, cvars, fvars, nvars>>

SpecPayload == InitPayload /\ [][NextPayload]_vars

\* C27: once a schema has been detected, every key of the payload built by
\* buildPayloadForApi belongs to the detected key set, whatever the car data
\* and imagesTouched; while none has been detected, every core field is in
\* the payload.
C27_PayloadWithinSchema ==
    lastPayload.built =>
        IF shape.apiKeys.null
        THEN CoreFields \subseteq DOMAIN lastPayload.payload
        ELSE DOMAIN lastPayload.payload \subseteq shape.apiKeys.keys

\* a payload built under a detected schema that lacks core fields, images
\* touched: it holds the images and some but not all core fields
C27_Witness ==
    /\ lastPayload.built
    /\ ~shape.apiKeys.null
    /\ shape.imagesTouched
    /\ "images_json" \in DOMAIN lastPayload.payload
    /\ "year" \in DOMAIN lastPayload.payload
    /\ "model" \notin DOMAIN lastPayload.payload

\* ----- rows and deleted images under concurrent requests (Spec) -----
\* handles the requests in the slots have passed to the remote Delete
PassedToDelete == UNION {Range(req[r].destroyed) : r \in Reqs}
ReferencedBy(id) == Range(getPublicIdsFromImages(normalizeImagesFromDb(rows[id])))

\* C28: under any interleaving of Create, Update and Delete requests, no
\* stored vehicle row references an image whose deletion handle has been
\* passed to the remote Delete.
C28_NoRowReferencesDeleted ==
    \A id \in DOMAIN rows : ReferencedBy(id) \cap PassedToDelete = {}

\* an Update of vehicle id that uploaded new images, wrote the row and has
\* finished its cleanup
UpdateWithUploadsDone(r, id) ==
    /\ req[r].kind = "update" /\ req[r].id = id
    /\ req[r].files > 0
    /\ req[r].wrote /\ req[r].status = 200
    /\ req[r].pc = "done"

\* C29: when two Updates of the same vehicle, each supplying new images, run
\* concurrently and both succeed, every image either of them uploaded ends up
\* referenced by the stored row or passed to the remote Delete.
C29_NoOrphanAfterTwoUpdates ==
    \A r1, r2 \in Reqs, id \in DOMAIN rows :
        (r1 # r2 /\ UpdateWithUploadsDone(r1, id) /\ UpdateWithUploadsDone(r2, id)) =>
            UploadedBy(r1) \cup UploadedBy(r2) \subseteq ReferencedBy(id) \cup PassedToDelete

\* ----- what validation accepted and what was written (SpecFields) -----
\* result.data of validateVehicleFields for a numeric field: null for an
\* absent or empty field, Number(val) otherwise
Accepted(text) ==
    IF text \in {Undefined, <<>>} THEN [null |-> TRUE, val |-> 0]
    ELSE [null |-> FALSE, val |-> NumberOf[text].val]

\* a column as written: parseInt(x, 10) || null is never the number 0
Written(v) == IF v = Null THEN [null |-> TRUE, val |-> 0] ELSE [null |-> FALSE, val |-> v]

SaveWrote == Saved /\ lastSave.status \in {200, 201}

\* C30: for every Create or Update that passes validation, the year, price
\* and mileage written are exactly the numeric values validation accepted,
\* and are null only where the field was absent or empty.
C30_WrittenAsValidated ==
    SaveWrote =>
        LET row == vehicleRows[lastSave.id]
            body == lastSave.body
        IN  /\ Written(row.year) = Accepted(body.year)
            /\ Written(row.price) = Accepted(body.price)
            /\ Written(row.mileage) = Accepted(body.mileage)

\* the part of C30 that holds: an absent or empty field is written as null
C30_AbsentWrittenNull ==
    SaveWrote =>
        LET row == vehicleRows[lastSave.id]
            body == lastSave.body
        IN  /\ body.year \in {Undefined, <<>>} => row.year = Null
            /\ body.price \in {Undefined, <<>>} => row.price = Null
            /\ body.mileage \in {Undefined, <<>>} => row.mileage = Null
====
